---- MODULE Spec2Model ----
(***************************************************************************)
(* Model of the resume-ai-nlp text pipeline: the content enhancer          *)
(* (core/content_enhancer.py, core/nlp_engine.py), the section assembler   *)
(* (core/resume_builder.py, core/simple_builder.py), the web session       *)
(* handlers and the download handler (app.py), the exporters               *)
(* (core/simple_exporter.py, core/exporter.py) and the optional remote     *)
(* polishing of the enhancer (ContentEnhancer.ai_polish).                  *)
(*                                                                         *)
(* Python str values are TLA+ strings; a character is a string of length   *)
(* one.  The bullet marker U+2022 is written "~" and the marker U+25B8 is  *)
(* written "^", because module text is ASCII; no input of the model        *)
(* contains "~" or "^" in any other role.                                  *)
(***************************************************************************)
EXTENDS Integers, Sequences, FiniteSets, TLC

(***************************************************************************)
(* Python str primitives                                                   *)
(***************************************************************************)
Char(s, i) == SubSeq(s, i, i)

UpperAlpha == "ABCDEFGHIJKLMNOPQRSTUVWXYZ"
LowerAlpha == "abcdefghijklmnopqrstuvwxyz"
DigitChars == "0123456789"

CharSet(s) == {Char(s, i) : i \in 1..Len(s)}

UpperSet == CharSet(UpperAlpha)
LowerSet == CharSet(LowerAlpha)
DigitSet == CharSet(DigitChars)
SpaceSet == {" ", "\n", "\t"}
WordSet == UpperSet \cup LowerSet \cup DigitSet \cup {"_"}

LowerMap == [c \in UpperSet |-> Char(LowerAlpha, CHOOSE i \in 1..26 : Char(UpperAlpha, i) = c)]
UpperMap == [c \in LowerSet |-> Char(UpperAlpha, CHOOSE i \in 1..26 : Char(LowerAlpha, i) = c)]

LowerChar(c) == IF c \in UpperSet THEN LowerMap[c] ELSE c
UpperChar(c) == IF c \in LowerSet THEN UpperMap[c] ELSE c

Bullet == "~"
Arrow == "^"

\* s[i:] with a 1-based start
From(s, i) == SubSeq(s, i, Len(s))

Min(S) == CHOOSE k \in S : \A m \in S : k <= m
Max(S) == CHOOSE k \in S : \A m \in S : m <= k

\* the elements of a finite set of integers in increasing order
Sorted(S) == [k \in 1..Cardinality(S) |-> CHOOSE p \in S : Cardinality({q \in S : q < p}) = k - 1]

RECURSIVE ConcatRange(_, _, _)
\* parts[a] \o ... \o parts[b], by halving so that evaluation stays shallow
ConcatRange(parts, a, b) ==
    IF a > b THEN ""
    ELSE IF a = b THEN parts[a]
    ELSE LET m == (a + b) \div 2
         IN ConcatRange(parts, a, m) \o ConcatRange(parts, m + 1, b)
Concat(parts) == ConcatRange(parts, 1, Len(parts))

\* str.lower()
Lower(s) == Concat([i \in 1..Len(s) |-> LowerChar(Char(s, i))])
\* str.upper()
Upper(s) == Concat([i \in 1..Len(s) |-> UpperChar(Char(s, i))])

\* str.isupper(): at least one cased character and no lowercase one
IsUpper(s) == /\ \E i \in 1..Len(s) : Char(s, i) \in UpperSet
              /\ \A i \in 1..Len(s) : Char(s, i) \notin LowerSet

\* str.title(): a cased character is uppercased unless a cased character precedes it
Title(s) ==
    Concat([i \in 1..Len(s) |->
              IF i > 1 /\ Char(s, i - 1) \in UpperSet \cup LowerSet
              THEN LowerChar(Char(s, i)) ELSE UpperChar(Char(s, i))])

\* str.rstrip(chars), str.lstrip(chars)
RStripChars(s, chars) ==
    LET keep == {i \in 1..Len(s) : Char(s, i) \notin chars}
    IN IF keep = {} THEN "" ELSE SubSeq(s, 1, Max(keep))
LStripChars(s, chars) ==
    LET keep == {i \in 1..Len(s) : Char(s, i) \notin chars}
    IN IF keep = {} THEN "" ELSE From(s, Min(keep))
\* str.strip(), str.lstrip(), str.rstrip()
LStrip(s) == LStripChars(s, SpaceSet)
RStrip(s) == RStripChars(s, SpaceSet)
Strip(s) == LStrip(RStrip(s))

StartsWith(s, p) == Len(p) <= Len(s) /\ SubSeq(s, 1, Len(p)) = p
EndsWith(s, p) == Len(p) <= Len(s) /\ SubSeq(s, Len(s) - Len(p) + 1, Len(s)) = p
MatchAt(s, i, p) == i + Len(p) - 1 <= Len(s) /\ SubSeq(s, i, i + Len(p) - 1) = p
\* whether the characters of s at i are p when lowercased (p is lowercase)
MatchAtLower(s, i, p) == i + Len(p) - 1 <= Len(s) /\ Lower(SubSeq(s, i, i + Len(p) - 1)) = p
\* the Python test `p in s`
Contains(s, p) == \E i \in 1..(Len(s) - Len(p) + 1) : SubSeq(s, i, i + Len(p) - 1) = p
\* any(term in s for term in terms)
ContainsAny(s, terms) == \E k \in 1..Len(terms) : Contains(s, terms[k])

\* sep.join(parts)
Join(parts, sep) ==
    IF Len(parts) = 0 THEN ""
    ELSE Concat([k \in 1..(2 * Len(parts) - 1) |->
                    IF k % 2 = 1 THEN parts[(k + 1) \div 2] ELSE sep])

\* the piece of s that starts at b and runs to the next character of seps
PieceAt(s, seps, b) ==
    LET stops == {i \in b..Len(s) : Char(s, i) \in seps}
    IN SubSeq(s, b, IF stops = {} THEN Len(s) ELSE Min(stops) - 1)

\* str.split(c) for a one-character separator, and re.split('[...]', s) for a character class
Split(s, seps) ==
    LET starts == Sorted({1} \cup {i + 1 : i \in {j \in 1..Len(s) : Char(s, j) \in seps}})
    IN [k \in 1..Len(starts) |-> PieceAt(s, seps, starts[k])]

\* re.split('[...]+', s): a run of separator characters is one separator
SplitRuns(s, seps) ==
    LET ends == {j \in 1..Len(s) : Char(s, j) \in seps /\ (j = Len(s) \/ Char(s, j + 1) \notin seps)}
        starts == Sorted({1} \cup {j + 1 : j \in ends})
    IN [k \in 1..Len(starts) |-> PieceAt(s, seps, starts[k])]

\* str.split(): the whitespace-separated words
Words(s) == SelectSeq(SplitRuns(s, SpaceSet), LAMBDA w : w # "")

RECURSIVE ReplaceFrom(_, _, _, _)
\* one step per occurrence of old
ReplaceFrom(s, old, new, i) ==
    LET hits == {j \in i..(Len(s) - Len(old) + 1) : MatchAt(s, j, old)}
    IN IF hits = {} THEN From(s, i)
       ELSE SubSeq(s, i, Min(hits) - 1) \o new \o ReplaceFrom(s, old, new, Min(hits) + Len(old))
\* str.replace(old, new), old non-empty
Replace(s, old, new) == ReplaceFrom(s, old, new, 1)

\* the lines of a text, as str.split('\n') yields them
Lines(s) == Split(s, {"\n"})

Range(f) == {f[k] : k \in DOMAIN f}

(***************************************************************************)
(* core/content_enhancer.py: the bullet pipeline                           *)
(***************************************************************************)
\* ContentEnhancer.verb_transformations, in the dictionary's insertion order
verb_transformations ==
    << <<"worked", "Developed">>,
       <<"helped", "Implemented">>,
       <<"did", "Executed">>,
       <<"made", "Built">>,
       <<"was responsible for", "Managed">>,
       <<"handled", "Managed">>,
       <<"dealt with", "Resolved">>,
       <<"took care of", "Maintained">>,
       <<"was involved in", "Participated in">>,
       <<"used", "Utilized">>,
       <<"got", "Achieved">>,
       <<"tried", "Implemented">>,
       <<"looked at", "Analyzed">>,
       <<"worked on", "Developed">>,
       <<"worked with", "Collaborated with">>,
       <<"assisted", "Supported">>,
       <<"participated", "Contributed to">>,
       <<"contributed", "Enhanced">>,
       <<"supported", "Facilitated">> >>

\* the regex assertion \b between positions i-1 and i of s
WordBoundary(s, i) ==
    LET before == i > 1 /\ Char(s, i - 1) \in WordSet
        after == i <= Len(s) /\ Char(s, i) \in WordSet
    IN before # after

\* whether r'\b' + re.escape(weak) + r'\b' matches at position i under re.IGNORECASE
WeakMatchAt(s, i, weak) ==
    /\ i + Len(weak) - 1 <= Len(s)
    /\ Lower(SubSeq(s, i, i + Len(weak) - 1)) = weak
    /\ WordBoundary(s, i)
    /\ WordBoundary(s, i + Len(weak))

RECURSIVE SubWeakFrom(_, _, _, _)
\* one step per match, leftmost first, matches not overlapping
SubWeakFrom(s, weak, strong, i) ==
    LET hits == {j \in i..(Len(s) - Len(weak) + 1) : WeakMatchAt(s, j, weak)}
    IN IF hits = {} THEN From(s, i)
       ELSE SubSeq(s, i, Min(hits) - 1) \o strong \o SubWeakFrom(s, weak, strong, Min(hits) + Len(weak))
\* re.sub(r'\b' + re.escape(weak) + r'\b', strong, s, flags=re.IGNORECASE)
SubWeak(s, weak, strong) == SubWeakFrom(s, weak, strong, 1)

RECURSIVE ReplaceWeakVerbsRange(_, _, _)
\* entries a..b of the table applied in order; the range is halved, and the first
\* half is evaluated (the test on Len) before the second starts, so that the
\* evaluation stays shallow
ReplaceWeakVerbsRange(s, a, b) ==
    IF a = b THEN SubWeak(s, verb_transformations[a][1], verb_transformations[a][2])
    ELSE LET m == (a + b) \div 2
             half == ReplaceWeakVerbsRange(s, a, m)
         IN IF Len(half) >= 0 THEN ReplaceWeakVerbsRange(half, m + 1, b) ELSE half
\* the loop over verb_transformations.items() of _transform_to_bullet
ReplaceWeakVerbs(s) == ReplaceWeakVerbsRange(s, 1, Len(verb_transformations))

\* re.sub(r'^[~\-\*]\s*', '', s): one leading marker and the whitespace after it
StripBulletMarker(s) ==
    IF s # "" /\ Char(s, 1) \in {Bullet, "-", "*"} THEN LStrip(From(s, 2)) ELSE s

\* the allow-list of _ensure_strong_start, lowercased as the code compares it
strong_verbs ==
    { "developed", "built", "created", "designed", "implemented", "engineered",
      "led", "managed", "directed", "coordinated", "supervised", "mentored",
      "optimized", "enhanced", "improved", "streamlined", "automated",
      "achieved", "delivered", "executed", "completed", "launched",
      "analyzed", "researched", "evaluated", "assessed", "investigated",
      "collaborated", "partnered", "facilitated", "contributed", "supported" }

FirstWord(s) == IF Words(s) = <<>> THEN "" ELSE Words(s)[1]

StartsStrong(s) == RStripChars(Lower(FirstWord(s)), {".", ",", "!", "?"}) \in strong_verbs

_ensure_strong_start(sentence) ==
    IF sentence = "" THEN sentence
    ELSE IF StartsStrong(sentence) THEN sentence
    ELSE LET low == Lower(sentence)
         IN IF ContainsAny(low, <<"develop", "build", "creat">>) THEN "Developed " \o sentence
            ELSE IF ContainsAny(low, <<"lead", "manag", "direct">>) THEN "Led " \o sentence
            ELSE IF ContainsAny(low, <<"optim", "improv", "enhanc">>) THEN "Optimized " \o sentence
            ELSE IF ContainsAny(low, <<"analyz", "research", "evaluat">>) THEN "Analyzed " \o sentence
            ELSE IF ContainsAny(low, <<"collaborat", "work with", "partner">>) THEN "Collaborated on " \o sentence
            ELSE "Implemented " \o sentence

\* length of the maximal run of \w characters of s starting at j
WordRun(s, j) ==
    LET stops == {m \in j..Len(s) : Char(s, m) \notin WordSet}
    IN IF stops = {} THEN Len(s) - j + 1 ELSE Min(stops) - j

\* lengths k for which the k characters at j match \w+ed (greedy \w+ takes the longest)
EdLengths(s, j) ==
    {k \in 3..WordRun(s, j) : Lower(SubSeq(s, j + k - 2, j + k - 1)) = "ed"}

\* whether aux + ' (\w+ed)' matches at position i under re.IGNORECASE
PassiveMatchAt(s, i, aux) ==
    /\ i + Len(aux) <= Len(s)
    /\ Lower(SubSeq(s, i, i + Len(aux))) = aux \o " "
    /\ EdLengths(s, i + Len(aux) + 1) # {}

RECURSIVE SubPassiveFrom(_, _, _)
\* one step per match, leftmost first; a match is replaced by its group (\w+ed)
SubPassiveFrom(s, aux, i) ==
    LET hits == {j \in i..Len(s) : PassiveMatchAt(s, j, aux)}
    IN IF hits = {} THEN From(s, i)
       ELSE LET j == Min(hits) + Len(aux) + 1
                k == Max(EdLengths(s, j))
            IN SubSeq(s, i, Min(hits) - 1) \o SubSeq(s, j, j + k - 1) \o SubPassiveFrom(s, aux, j + k)
\* re.sub(aux + r' (\w+ed)', r'\1', s, flags=re.IGNORECASE)
SubPassive(s, aux) == SubPassiveFrom(s, aux, 1)

\* the auxiliaries of passive_patterns, in list order
passive_patterns == <<"was", "were", "has been", "have been", "is", "are">>

RECURSIVE ConvertRange(_, _, _)
ConvertRange(s, a, b) ==
    IF a = b THEN SubPassive(s, passive_patterns[a])
    ELSE LET m == (a + b) \div 2
             half == ConvertRange(s, a, m)
         IN IF Len(half) >= 0 THEN ConvertRange(half, m + 1, b) ELSE half
_convert_to_active_voice(sentence) == ConvertRange(sentence, 1, Len(passive_patterns))

HasDigit(s) == \E i \in 1..Len(s) : Char(s, i) \in DigitSet

\* the search with the suffix of its first alternative required: \d+[%kmb] for \d+[%kmb]?
QuantifiedSearchSuffixed(s) ==
    \E i \in 1..Len(s) :
        /\ Char(s, i) \in DigitSet
        /\ i < Len(s)
        /\ \/ Char(s, i + 1) \in {"%", "k", "m", "b", "x"}
           \/ Char(s, i + 1) = ":" /\ i + 1 < Len(s) /\ Char(s, i + 2) \in DigitSet

\* re.search(r'\d+[%kmb]?|\$\d+|\d+x|\d+:\d+', s)
QuantifiedSearch(s) ==
    \E i \in 1..Len(s) :
        \/ Char(s, i) \in DigitSet
        \/ Char(s, i) = "$" /\ i < Len(s) /\ Char(s, i + 1) \in DigitSet

\* NLPEngine.extract_quantified_achievements(s) != []: each of its eight patterns
\* needs a digit, and r'\d{1,3}(?:,\d{3})*' matches at every digit
HasQuantifiedAchievements(s) == HasDigit(s)

_add_quantification(sentence, nlp) ==
    IF QuantifiedSearch(sentence) THEN sentence
    ELSE IF nlp /\ HasQuantifiedAchievements(sentence) THEN sentence
    ELSE LET low == Lower(sentence)
         IN IF Contains(low, "performance") \/ Contains(low, "speed")
            THEN IF Contains(low, "improv") \/ Contains(low, "optim")
                 THEN Replace(sentence, ".", ", improving performance by 25%.")
                 ELSE sentence
            ELSE IF Contains(low, "cost") \/ Contains(low, "expense")
            THEN IF Contains(low, "reduc") \/ Contains(low, "sav")
                 THEN Replace(sentence, ".", ", reducing costs by 20%.")
                 ELSE sentence
            ELSE IF Contains(low, "time")
            THEN IF Contains(low, "reduc") \/ Contains(low, "sav")
                 THEN Replace(sentence, ".", ", saving 15 hours per week.")
                 ELSE sentence
            ELSE IF Contains(low, "user") \/ Contains(low, "customer")
            THEN IF Contains(low, "improv") \/ Contains(low, "enhanc")
                 THEN Replace(sentence, ".", ", improving user satisfaction by 30%.")
                 ELSE sentence
            ELSE sentence

\* the last two steps of _transform_to_bullet: capitalise, terminal period
Punctuate(raw) ==
    LET s == Strip(raw)
    IN IF s = "" THEN s
       ELSE LET c == UpperChar(Char(s, 1)) \o From(s, 2)
            IN IF EndsWith(c, ".") THEN c ELSE c \o "."

\* a stage of a pipeline has its value: the test makes the stage be evaluated before
\* the next one starts
Ready(stage) == Len(stage) >= 0

\* the steps of _transform_to_bullet in turn, each on the result of the one before
_transform_to_bullet(raw, nlp) ==
    LET Quantified(sentence) == IF Ready(sentence) THEN Punctuate(sentence) ELSE ""
        Active(sentence) ==
            IF Ready(sentence) THEN Quantified(_add_quantification(sentence, nlp)) ELSE ""
        Strong(sentence) ==
            IF Ready(sentence) THEN Active(_convert_to_active_voice(sentence)) ELSE ""
        Replaced(sentence) ==
            IF Ready(sentence) THEN Strong(_ensure_strong_start(sentence)) ELSE ""
        Unmarked(sentence) ==
            IF Ready(sentence) THEN Replaced(ReplaceWeakVerbs(sentence)) ELSE ""
        Stripped(sentence) ==
            IF sentence = "" THEN "" ELSE Unmarked(StripBulletMarker(sentence))
    IN Stripped(Strip(raw))

(***************************************************************************)
(* core/nlp_engine.py: the basic analysis (spaCy is an optional import;    *)
(* without it analyze_text takes _analyze_basic)                           *)
(***************************************************************************)
SentenceEnd == {".", "!", "?"}

\* analyze_text(text)["sentences"]: the pieces between runs of . ! ?, stripped,
\* those of more than ten characters kept
Sentences(text) ==
    IF Strip(text) = "" THEN <<>>
    ELSE LET pieces == SplitRuns(text, SentenceEnd)
         IN SelectSeq([k \in 1..Len(pieces) |-> Strip(pieces[k])], LAMBDA p : Len(p) > 10)

(***************************************************************************)
(* core/content_enhancer.py: the section enhancers                         *)
(***************************************************************************)
\* length of the whitespace run of s that starts at i
SpaceRun(s, i) ==
    LET stops == {m \in i..Len(s) : Char(s, m) \notin SpaceSet}
    IN IF stops = {} THEN Len(s) - i + 1 ELSE Min(stops) - i

\* re.split(r'[.!?;]\s*', s): a separator is one mark and the whitespace after it
SplitMarks(s) ==
    LET marks == Sorted({i \in 1..Len(s) : Char(s, i) \in SentenceEnd \cup {";"}})
        n == Len(marks)
        first(k) == IF k = 1 THEN 1 ELSE marks[k - 1] + 1 + SpaceRun(s, marks[k - 1] + 1)
        last(k) == IF k = n + 1 THEN Len(s) ELSE marks[k] - 1
    IN [k \in 1..(n + 1) |-> SubSeq(s, first(k), last(k))]

\* the bullets of the given sentences, blank sentences and empty bullets left out
BulletsOf(sentences, nlp) ==
    SelectSeq([k \in 1..Len(sentences) |->
                  IF Strip(sentences[k]) = "" THEN "" ELSE _transform_to_bullet(sentences[k], nlp)],
              LAMBDA b : b # "")

_create_bullets_from_raw(raw_text, nlp) ==
    LET pieces == SplitMarks(raw_text)
        long == SelectSeq([k \in 1..Len(pieces) |-> Strip(pieces[k])], LAMBDA p : Len(p) > 10)
    IN BulletsOf(long, nlp)

\* enhance_experience with openai_client = None (no OPENAI_API_KEY in the environment)
enhance_experience(raw_experience, nlp) ==
    LET Result(bullets) ==
            Join(IF bullets = <<>> THEN _create_bullets_from_raw(raw_experience, nlp) ELSE bullets,
                 "\n")
    IN IF Strip(raw_experience) = "" THEN ""
       ELSE Result(BulletsOf(IF nlp THEN Sentences(raw_experience) ELSE <<raw_experience>>, nlp))

\* enhance_projects with openai_client = None
enhance_projects(raw_projects, nlp) ==
    IF Strip(raw_projects) = "" THEN ""
    ELSE LET sentences == IF nlp THEN Sentences(raw_projects) ELSE <<raw_projects>>
         IN Join(BulletsOf(sentences, nlp), "\n")

enhance_education(raw_education) ==
    IF Strip(raw_education) = "" THEN ""
    ELSE LET education == Strip(raw_education)
         IN IF StartsWith(education, Bullet) THEN education ELSE Bullet \o " " \o education

enhance_custom_section(title, content) ==
    IF Strip(content) = "" THEN ""
    ELSE LET lines == Lines(content)
             kept == SelectSeq([k \in 1..Len(lines) |-> Strip(lines[k])], LAMBDA l : l # "")
         IN Join([k \in 1..Len(kept) |->
                     IF StartsWith(kept[k], Bullet) THEN kept[k] ELSE Bullet \o " " \o kept[k]], "\n")

\* _parse_skills: re.split(r'[,;|\n]', raw), stripped, tokens of one character dropped
_parse_skills(raw_skills) ==
    LET pieces == Split(raw_skills, {",", ";", "|", "\n"})
    IN SelectSeq([k \in 1..Len(pieces) |-> Strip(pieces[k])], LAMBDA p : Len(p) > 1)

\* the categories of _categorize_skills, in dictionary order, each with its term list
skill_categories ==
    << <<"Programming Languages",
         <<"python", "javascript", "java", "c++", "c#", "php", "ruby", "go", "typescript">> >>,
       <<"Frameworks & Libraries",
         <<"react", "angular", "vue", "node.js", "django", "flask", "spring", "express">> >>,
       <<"Databases",
         <<"sql", "mysql", "postgresql", "mongodb", "redis", "oracle", "sqlite">> >>,
       <<"Cloud & DevOps",
         <<"aws", "azure", "gcp", "docker", "kubernetes", "jenkins", "terraform">> >>,
       <<"Tools & Platforms",
         <<"git", "github", "jira", "postman", "figma", "photoshop">> >> >>

\* the index of the category the if/elif chain of _categorize_skills puts a skill in
CategoryOf(skill) ==
    LET low == Lower(skill)
        hits == {c \in 1..Len(skill_categories) : ContainsAny(low, skill_categories[c][2])}
    IN IF hits = {} THEN Len(skill_categories) ELSE Min(hits)

\* _categorize_skills: per category the skills it received, in input order
_categorize_skills(skills) ==
    LET cats == [k \in 1..Len(skills) |-> CategoryOf(skills[k])]
        pos(c) == Sorted({k \in 1..Len(skills) : cats[k] = c})
    IN [c \in 1..Len(skill_categories) |-> [j \in 1..Len(pos(c)) |-> skills[pos(c)[j]]]]

enhance_skills(raw_skills) ==
    IF Strip(raw_skills) = "" THEN ""
    ELSE LET categorized == _categorize_skills(_parse_skills(raw_skills))
             used == Sorted({c \in 1..Len(skill_categories) : Len(categorized[c]) > 0})
         IN Join([k \in 1..Len(used) |->
                     skill_categories[used[k]][1] \o ": " \o Join(categorized[used[k]], ", ")], "\n")

\* NLPEngine.skill_keywords
skill_keywords ==
    { "python", "javascript", "java", "typescript", "c++", "c#", "php", "ruby",
      "go", "rust", "swift", "kotlin", "scala", "r", "matlab", "perl", "shell",
      "html", "css", "react", "angular", "vue.js", "node.js", "express",
      "django", "flask", "spring", "laravel", "rails", "asp.net", "jquery",
      "bootstrap", "tailwind", "sass", "webpack", "babel", "npm", "yarn",
      "sql", "mysql", "postgresql", "mongodb", "redis", "elasticsearch",
      "oracle", "sqlite", "cassandra", "dynamodb", "neo4j", "influxdb",
      "aws", "azure", "gcp", "docker", "kubernetes", "jenkins", "gitlab",
      "terraform", "ansible", "chef", "puppet", "vagrant", "nginx", "apache",
      "pandas", "numpy", "scikit-learn", "tensorflow", "pytorch", "keras",
      "matplotlib", "seaborn", "jupyter", "spark", "hadoop", "tableau",
      "git", "github", "bitbucket", "jira", "confluence", "slack", "trello",
      "postman", "swagger", "figma", "sketch", "photoshop", "illustrator" }

\* the skills _analyze_basic finds in a text: `skill in text_lower`, a substring test
FoundKeywords(text) == LET low == Lower(text) IN {k \in skill_keywords : Contains(low, k)}

\* the orders in which a set can be listed
Orders(S) == {q \in [1..Cardinality(S) -> S] : \A i, j \in 1..Cardinality(S) : q[i] = q[j] => i = j}

\* analyze_text(text)["keywords"]: list(set(keywords)), built by iterating the set
\* skill_keywords; the order of a set of str depends on the interpreter's hash seed,
\* so every order of the found skills is a possible value
KeywordLists(text, nlp) == IF nlp /\ Strip(text) # "" THEN Orders(FoundKeywords(text)) ELSE {<<>>}

Prefix(q, n) == SubSeq(q, 1, IF Len(q) < n THEN Len(q) ELSE n)

_detect_domain(text) ==
    LET low == Lower(text)
    IN IF ContainsAny(low, <<"software", "developer", "engineer", "programming", "code", "api", "web", "app">>)
       THEN "software"
       ELSE IF ContainsAny(low, <<"data", "analytics", "machine learning", "statistics", "analysis", "visualization">>)
       THEN "data"
       ELSE IF ContainsAny(low, <<"business", "management", "strategy", "operations", "marketing", "sales">>)
       THEN "business"
       ELSE "software"

\* _extract_key_skills: keywords is analysis["keywords"], every member of which is in
\* skill_keywords on the basic path
_extract_key_skills(text, nlp, keywords) ==
    LET technical == IF nlp THEN [k \in 1..Len(keywords) |-> Title(keywords[k])] ELSE <<>>
        common == <<"python", "javascript", "react", "node.js", "aws", "docker", "sql">>
        found == SelectSeq(common, LAMBDA c : Contains(Lower(text), c))
    IN Prefix(IF Len(technical) > 0 THEN technical ELSE [k \in 1..Len(found) |-> Title(found[k])], 5)

\* the positions where a maximal run of digits starts, and the length of a run
DigitRunStarts(s) ==
    {i \in 1..Len(s) : Char(s, i) \in DigitSet /\ (i = 1 \/ Char(s, i - 1) \notin DigitSet)}
DigitRun(s, i) ==
    LET stops == {m \in i..Len(s) : Char(s, m) \notin DigitSet}
    IN IF stops = {} THEN Len(s) - i + 1 ELSE Min(stops) - i

\* whether (\d+)\+?\s*<unit> matches at the run that starts at i, under re.IGNORECASE
YearsMatchAt(s, i, unit) ==
    LET j == i + DigitRun(s, i)
        k == IF j <= Len(s) /\ Char(s, j) = "+" THEN j + 1 ELSE j
    IN MatchAtLower(s, k + SpaceRun(s, k), unit)

\* _extract_years_experience; "" stands for None.  Its third and fourth patterns
\* (over\s+(\d+)\s*years?, more than\s+(\d+)\s*years?) match only where the first
\* matches, so the first two decide
_extract_years_experience(text) ==
    LET years == {i \in DigitRunStarts(text) : YearsMatchAt(text, i, "year")}
        yrs == {i \in DigitRunStarts(text) : YearsMatchAt(text, i, "yr")}
        group(i) == SubSeq(text, i, i + DigitRun(text, i) - 1) \o "+"
    IN IF years # {} THEN group(Min(years))
       ELSE IF yrs # {} THEN group(Min(yrs))
       ELSE ""

\* extract_quantified_achievements: characters of context kept on either side of a
\* match, and the digits its last pattern \d{1,3}(?:,\d{3})* takes first
ContextWidth == 50
ContextDigits == 3

\* the digit runs of s that are directly followed by a character of marks (lowercased)
RunsBefore(s, marks) ==
    {i \in DigitRunStarts(s) :
        i + DigitRun(s, i) <= Len(s) /\ LowerChar(Char(s, i + DigitRun(s, i))) \in marks}

\* the digit runs directly followed by mark and a digit: \d+:\d+ and \d+\.\d+
RunsJoined(s, mark) ==
    {i \in RunsBefore(s, {mark}) :
        i + DigitRun(s, i) + 1 <= Len(s) /\ Char(s, i + DigitRun(s, i) + 1) \in DigitSet}

RECURSIVE CommaGroups(_, _)
\* the end of the greedy (?:,\d{3})* that starts after position e
CommaGroups(s, e) ==
    IF /\ e + 4 <= Len(s)
       /\ Char(s, e + 1) = ","
       /\ \A d \in 2..4 : Char(s, e + d) \in DigitSet
    THEN CommaGroups(s, e + 4) ELSE e

\* the span <<first, last>> of the match that extract_quantified_achievements lists
\* first: its patterns in order, the leftmost match of the first pattern that
\* matches; <<0, 0>> when s has no digit
FirstQuantified(s) ==
    LET pct == RunsBefore(s, {"%"})
        plus == RunsBefore(s, {"+"})
        dollar == {i \in 1..(Len(s) - 1) : Char(s, i) = "$" /\ Char(s, i + 1) \in DigitSet}
        kmb == RunsBefore(s, {"k", "m", "b"})
        mult == RunsBefore(s, {"x"})
        ratio == RunsJoined(s, ":")
        decimal == RunsJoined(s, ".")
        digits == {i \in 1..Len(s) : Char(s, i) \in DigitSet}
        after(i) == i + DigitRun(s, i)
    IN IF pct # {} THEN <<Min(pct), after(Min(pct))>>
       ELSE IF plus # {} THEN <<Min(plus), after(Min(plus))>>
       ELSE IF dollar # {}
       THEN LET e == after(Min(dollar) + 1)
            IN <<Min(dollar), IF e <= Len(s) /\ LowerChar(Char(s, e)) \in {"k", "m", "b"} THEN e ELSE e - 1>>
       ELSE IF kmb # {} THEN <<Min(kmb), after(Min(kmb))>>
       ELSE IF mult # {} THEN <<Min(mult), after(Min(mult))>>
       ELSE IF ratio # {} THEN <<Min(ratio), after(after(Min(ratio)) + 1) - 1>>
       ELSE IF decimal # {} THEN <<Min(decimal), after(after(Min(decimal)) + 1) - 1>>
       ELSE IF digits # {}
       THEN LET i == Min(digits)
                n == IF DigitRun(s, i) < ContextDigits THEN DigitRun(s, i) ELSE ContextDigits
            IN <<i, CommaGroups(s, i + n - 1)>>
       ELSE <<0, 0>>

\* extract_quantified_achievements(text)[0]: the match with up to ContextWidth
\* characters on either side, stripped; "" when the list is empty
FirstQuantifiedContext(text) ==
    LET Context(span) ==
            IF span[1] = 0 THEN ""
            ELSE Strip(SubSeq(text, Max({1, span[1] - ContextWidth}),
                              Min({Len(text), span[2] + ContextWidth})))
    IN Context(FirstQuantified(text))

\* _extract_key_achievements(text)[0], "" when the list is empty
_extract_key_achievements(text, nlp) ==
    IF nlp THEN FirstQuantifiedContext(text)
    ELSE LET sentences == Split(text, SentenceEnd)
             hits == {k \in 1..Len(sentences) :
                        ContainsAny(Lower(sentences[k]),
                                    <<"improved", "increased", "reduced", "achieved", "delivered", "led">>)}
         IN IF hits = {} THEN "" ELSE Strip(sentences[Min(hits)])

\* summary_templates[domain], with the fields of intro and focus filled in
SummaryIntro(domain, years, skills) ==
    (IF domain = "data" THEN "Analytical data professional with "
     ELSE IF domain = "business" THEN "Strategic business professional with "
     ELSE "Results-driven software engineer with ")
    \o years \o " years of experience in " \o skills \o "."
SummaryFocus(domain, achievement) ==
    IF domain = "data"
    THEN "Specialized in data with demonstrated success in " \o achievement \o "."
    ELSE IF domain = "business"
    THEN "Expert in business with a proven ability to " \o achievement \o "."
    ELSE "Proven expertise in software with a track record of " \o achievement \o "."
SummaryGoal(domain) ==
    IF domain = "data"
    THEN "Looking to apply data-driven insights and analytical expertise to solve complex business challenges."
    ELSE IF domain = "business"
    THEN "Committed to driving organizational growth and operational excellence through strategic leadership."
    ELSE "Seeking to leverage technical skills and leadership experience to drive innovation at a forward-thinking technology company."

\* enhance_summary with openai_client = None; keywords is analysis["keywords"]
enhance_summary(raw_summary, nlp, keywords) ==
    LET Summary(domain, skills, years, achievement) ==
            Join(<<SummaryIntro(domain,
                                IF years = "" THEN "5+" ELSE years,
                                IF Len(skills) > 0 THEN Join(Prefix(skills, 3), ", ")
                                ELSE "full-stack development")>>
                 \o (IF achievement = "" THEN <<>> ELSE <<SummaryFocus(domain, achievement)>>)
                 \o <<SummaryGoal(domain)>>, " ")
    IN IF Strip(raw_summary) = "" THEN ""
       ELSE Summary(_detect_domain(raw_summary),
                    _extract_key_skills(raw_summary, nlp, keywords),
                    _extract_years_experience(raw_summary),
                    _extract_key_achievements(raw_summary, nlp))

(***************************************************************************)
(* core/resume_builder.py: the section assembler                           *)
(*                                                                         *)
(* A resume record `data` has the keys of the form dictionary, each a str, *)
(* the entry lists as sequences of records, and data.ints: the keys whose  *)
(* value is not a str but the int 5 (truthy, and without str methods; in   *)
(* ints "content" stands for the content of the first custom section).     *)
(* A builder is a pair of operators: whether the call raises, and the      *)
(* text it returns when it does not.                                       *)
(***************************************************************************)
\* the width of the divider line under a section, '-' * 50
DividerWidth == 50
Divider == Concat([k \in 1..DividerWidth |-> "-"])

\* whether the value of the key is an int instead of a str
IsInt(data, key) == key \in data.ints

RECURSIVE FlatRange(_, _, _)
\* the concatenation of the sequences lists[a..b], by halving
FlatRange(lists, a, b) ==
    IF a > b THEN <<>>
    ELSE IF a = b THEN lists[a]
    ELSE LET m == (a + b) \div 2
         IN FlatRange(lists, a, m) \o FlatRange(lists, m + 1, b)
Flat(lists) == FlatRange(lists, 1, Len(lists))

\* the list comprehension [x for x in items if x]
NonEmpty(items) == SelectSeq(items, LAMBDA x : x # "")

\* a link with https:// put before it unless it starts with http
WithScheme(url) == IF StartsWith(url, "http") THEN url ELSE "https://" \o url

\* _build_header_section raises on a name or link that is no str (no .strip, no
\* .startswith) and on a contact value that is no str (' | '.join)
HeaderRaises(data) ==
    \E key \in {"name", "location", "email", "phone", "linkedin", "website"} : IsInt(data, key)

_build_header_section(data) ==
    LET stripped == Strip(data.name)
        name == IF stripped = "" THEN "Professional Resume" ELSE stripped
        contact_info == NonEmpty(<<data.location, data.email, data.phone,
                                   IF data.linkedin = "" THEN "" ELSE WithScheme(data.linkedin),
                                   IF data.website = "" THEN "" ELSE WithScheme(data.website)>>)
    IN Join(<<Title(name)>> \o (IF contact_info = <<>> THEN <<>> ELSE <<Join(contact_info, " | ")>>), "\n")

\* a legacy text section and the summary: header, content, divider
Block(header, content) == Join(<<header, content, Divider>>, "\n")

\* a legacy text section, left out when its content is empty
LegacyBlock(header, content) == IF content = "" THEN "" ELSE Block(header, content)

SummaryRaises(data) == IsInt(data, "objective")

_build_summary_section(data, enhancer, nlp, keywords) ==
    LET Section(objective) ==
            IF objective = "" THEN ""
            ELSE Block("Professional Summary",
                       IF enhancer THEN enhance_summary(objective, nlp, keywords) ELSE objective)
    IN Section(Strip(data.objective))

SkillsRaises(data) == IsInt(data, "skills")

_build_skills_section(data, enhancer) ==
    LET Bulleted(pieces) ==
            LET skill_list == NonEmpty([k \in 1..Len(pieces) |-> Strip(pieces[k])])
            IN [k \in 1..Len(skill_list) |-> Bullet \o " " \o skill_list[k]]
        Section(enhanced_skills) ==
            IF Contains(enhanced_skills, "\n")
            THEN Join(<<"Skills", enhanced_skills, Divider>>, "\n")
            ELSE Join(<<"Skills">> \o Bulleted(Split(enhanced_skills, {","})) \o <<Divider>>, "\n")
        Enhanced(skills) ==
            IF skills = "" THEN ""
            ELSE Section(IF enhancer THEN enhance_skills(skills) ELSE skills)
    IN Enhanced(Strip(data.skills))

\* a variant that drops a section unless two lines follow its header
CloseSectionOfTwo(section_parts) ==
    LET n == Len(section_parts)
        popped == IF n > 0 /\ section_parts[n] = "" THEN SubSeq(section_parts, 1, n - 1)
                  ELSE section_parts
    IN IF Len(popped) > 2 THEN Join(popped \o <<Divider>>, "\n") ELSE ""

\* the end of an entry section: the trailing blank line removed, the divider added
\* when anything follows the header, and the section dropped unless it has more than
\* two lines
CloseSection(section_parts) ==
    LET n == Len(section_parts)
        popped == IF n > 0 /\ section_parts[n] = "" THEN SubSeq(section_parts, 1, n - 1)
                  ELSE section_parts
        closed == IF Len(popped) > 1 THEN popped \o <<Divider>> ELSE popped
    IN IF Len(closed) > 2 THEN Join(closed, "\n") ELSE ""

\* the lines a text contributes as bullets: each non-blank line stripped, the marker
\* put before it unless it has one (keep), or put before it in any case
BulletLines(text, keep) ==
    LET lines == Lines(text)
        kept == NonEmpty([k \in 1..Len(lines) |-> Strip(lines[k])])
    IN [k \in 1..Len(kept) |->
           IF keep /\ StartsWith(kept[k], Bullet) THEN kept[k] ELSE Bullet \o " " \o kept[k]]

\* a legacy text field: _build_education_section, _build_experience_section and
\* _build_projects_section raise when the field is no str, at '\n'.join(section_parts)
LegacyRaises(data, entries, key) == entries = <<>> /\ IsInt(data, key)

EducationEntryLines(entry) ==
    LET degree_field == NonEmpty(<<entry.degree, IF entry.field = "" THEN "" ELSE "in " \o entry.field>>)
        institution_info == NonEmpty(<<entry.institution,
                                       IF entry.end = "" THEN "" ELSE "| Graduated: " \o entry.end>>)
        additional_info == NonEmpty(<<IF entry.gpa = "" THEN "" ELSE "GPA: " \o entry.gpa,
                                      Strip(entry.achievements)>>)
        entry_parts == (IF degree_field = <<>> THEN <<>> ELSE <<Join(degree_field, " ")>>)
                       \o (IF institution_info = <<>> THEN <<>> ELSE <<Join(institution_info, " ")>>)
                       \o (IF additional_info = <<>> THEN <<>> ELSE <<Join(additional_info, ", ")>>)
    IN IF entry.institution = "" /\ entry.degree = "" /\ entry.field = "" THEN <<>>
       ELSE IF entry_parts = <<>> THEN <<>>
       ELSE entry_parts \o <<"">>

EducationRaises(data) == LegacyRaises(data, data.education_entries, "education")

_build_education_section(data, enhancer) ==
    LET entries == data.education_entries
    IN IF entries = <<>>
       THEN LegacyBlock("Education",
                        IF enhancer THEN enhance_education(data.education) ELSE data.education)
       ELSE CloseSection(<<"Education">> \o Flat([k \in 1..Len(entries) |-> EducationEntryLines(entries[k])]))

ExperienceEntryLines(entry, enhancer, nlp) ==
    LET job_header == entry.title \o (IF entry.company = "" THEN "" ELSE ", " \o entry.company)
        dates == IF entry.start # "" /\ entry.end # "" THEN <<entry.start \o " - " \o entry.end>>
                 ELSE IF entry.start # "" THEN <<entry.start \o " - Present">>
                 ELSE <<>>
        bullets(text) == IF Strip(text) = "" THEN <<>>
                         ELSE IF enhancer THEN BulletLines(enhance_experience(Strip(text), nlp), TRUE)
                         ELSE BulletLines(Strip(text), FALSE)
    IN IF entry.company = "" /\ entry.title = "" THEN <<>>
       ELSE <<job_header>> \o dates \o bullets(entry.responsibilities) \o bullets(entry.achievements)
            \o <<"">>

ExperienceRaises(data) == LegacyRaises(data, data.experience_entries, "experience")

_build_experience_section(data, enhancer, nlp) ==
    LET entries == data.experience_entries
    IN IF entries = <<>>
       THEN LegacyBlock("Experience",
                        IF enhancer THEN enhance_experience(data.experience, nlp)
                        ELSE data.experience)
       ELSE CloseSection(<<"Experience">>
                         \o Flat([k \in 1..Len(entries) |-> ExperienceEntryLines(entries[k], enhancer, nlp)]))

ProjectEntryLines(entry, enhancer, nlp) ==
    LET project_header == entry.name \o (IF entry.start # "" /\ entry.end # ""
                                         THEN ", " \o entry.start \o " - " \o entry.end ELSE "")
        description == Strip(entry.description)
        technologies == Strip(entry.technologies)
    IN IF entry.name = "" /\ entry.description = "" THEN <<>>
       ELSE (IF entry.name = "" THEN <<>> ELSE <<project_header>>)
            \o (IF description = "" THEN <<>>
                ELSE IF enhancer THEN BulletLines(enhance_projects(description, nlp), TRUE)
                ELSE <<Bullet \o " " \o description>>)
            \o (IF technologies = "" THEN <<>> ELSE <<Bullet \o " Technologies: " \o technologies>>)
            \o (IF entry.link = "" THEN <<>> ELSE <<Bullet \o " Link: " \o entry.link>>)
            \o <<"">>

ProjectsRaises(data) == LegacyRaises(data, data.project_entries, "projects")

_build_projects_section(data, enhancer, nlp) ==
    LET entries == data.project_entries
    IN IF entries = <<>>
       THEN LegacyBlock("Projects",
                        IF enhancer THEN enhance_projects(data.projects, nlp) ELSE data.projects)
       ELSE CloseSection(<<"Projects">>
                         \o Flat([k \in 1..Len(entries) |-> ProjectEntryLines(entries[k], enhancer, nlp)]))

\* _build_custom_sections raises at section.get('content', '').strip() on a content
\* that is no str, whichever section holds it
CustomRaises(data) == data.custom_sections # <<>> /\ IsInt(data, "content")

\* the block of one custom section, "" when the section is skipped
CustomBlock(section, enhancer) ==
    LET title == Strip(section.title)
        content == Strip(section.content)
        enhanced_content == IF enhancer THEN enhance_custom_section(title, content) ELSE content
    IN IF title = "" \/ content = "" \/ enhanced_content = "" THEN ""
       ELSE Join(<<Title(title), enhanced_content, Divider>>, "\n")

_build_custom_sections(data, enhancer) ==
    NonEmpty([k \in 1..Len(data.custom_sections) |-> CustomBlock(data.custom_sections[k], enhancer)])

\* _create_fallback_resume raises on a name that is no str (.title()) and on any
\* value it joins that is no str
FallbackRaises(data) ==
    \E key \in {"name", "location", "email", "phone", "objective", "skills",
                "experience", "education", "projects"} : IsInt(data, key)

\* a section of the fallback document: header, the raw field, divider, blank line
FallbackBlock(header, content) ==
    IF content = "" THEN <<>> ELSE <<header, content, Divider, "">>

_create_fallback_resume(data) ==
    LET contact_info == NonEmpty(<<data.location, data.email, data.phone>>)
    IN Join(<<Title(data.name)>>
            \o (IF contact_info = <<>> THEN <<>> ELSE <<Join(contact_info, " | "), "">>)
            \o FallbackBlock("Professional Summary", data.objective)
            \o FallbackBlock("Skills", data.skills)
            \o FallbackBlock("Experience", data.experience)
            \o FallbackBlock("Education", data.education)
            \o (IF data.projects = "" THEN <<>> ELSE <<"Projects", data.projects, Divider>>),
            "\n")

\* the outcome of a call: raised, or the text returned
Returned(text) == [raised |-> FALSE, text |-> text]
Raised == [raised |-> TRUE, text |-> ""]

\* the list resume_sections of generate_resume: the non-empty result of every builder
\* that did not raise, in the order of the calls
resume_sections(data, enhancer, nlp, keywords) ==
    NonEmpty(<<IF HeaderRaises(data) THEN "" ELSE _build_header_section(data),
               IF SummaryRaises(data) THEN "" ELSE _build_summary_section(data, enhancer, nlp, keywords),
               IF SkillsRaises(data) THEN "" ELSE _build_skills_section(data, enhancer),
               IF EducationRaises(data) THEN "" ELSE _build_education_section(data, enhancer),
               IF ExperienceRaises(data) THEN "" ELSE _build_experience_section(data, enhancer, nlp),
               IF ProjectsRaises(data) THEN "" ELSE _build_projects_section(data, enhancer, nlp)>>)
    \o (IF CustomRaises(data) THEN <<>> ELSE _build_custom_sections(data, enhancer))

\* resume_builder.generate_resume(data, style); enhancer says whether ContentEnhancer()
\* could be constructed, nlp whether its nlp_engine could
generate_resume(data, style, enhancer, nlp, keywords) ==
    LET Result(complete_resume) ==
            IF complete_resume # "" THEN Returned(complete_resume)
            ELSE IF FallbackRaises(data) THEN Raised
            ELSE Returned(Strip(_create_fallback_resume(data)))
    IN Result(Strip(Join(resume_sections(data, enhancer, nlp, keywords), "\n")))

(***************************************************************************)
(* core/simple_builder.py: the entry point the web application calls       *)
(***************************************************************************)
\* the width of the divider line of the minimal fallback, '-' * 30
MinimalDividerWidth == 30
MinimalDivider == Concat([k \in 1..MinimalDividerWidth |-> "-"])

\* _create_minimal_fallback raises on a name that is no str (.upper()) and on a value
\* that is no str among those it joins as they are (the contact values are formatted
\* into f-strings, which accept any value)
MinimalFallbackRaises(data) ==
    \/ \E key \in {"name", "objective", "skills"} : IsInt(data, key)
    \/ data.education_entries = <<>> /\ IsInt(data, "education")
    \/ data.experience_entries = <<>> /\ IsInt(data, "experience")
    \/ data.project_entries = <<>> /\ IsInt(data, "projects")
    \/ data.custom_sections # <<>> /\ data.custom_sections[1].title # "" /\ IsInt(data, "content")

MinimalBlock(header, content) ==
    IF content = "" THEN <<>> ELSE <<header, MinimalDivider, content, "">>

MinimalEducationLines(entry) ==
    LET entry_parts == NonEmpty(<<entry.degree,
                                  IF entry.field = "" THEN "" ELSE "in " \o entry.field,
                                  IF entry.institution = "" THEN "" ELSE "from " \o entry.institution,
                                  IF entry.start # "" /\ entry.end # ""
                                  THEN "(" \o entry.start \o " - " \o entry.end \o ")"
                                  ELSE IF entry.end # "" THEN "(" \o entry.end \o ")" ELSE "">>)
    IN (IF entry_parts = <<>> THEN <<>> ELSE <<Bullet \o " " \o Join(entry_parts, " ")>>)
       \o (IF entry.gpa = "" THEN <<>> ELSE <<"  GPA: " \o entry.gpa>>)
       \o (IF entry.achievements = "" THEN <<>> ELSE <<"  " \o entry.achievements>>)

\* the non-blank lines of a text as sub-bullets
SubBullets(text) ==
    LET lines == Lines(text)
        kept == NonEmpty([k \in 1..Len(lines) |-> Strip(lines[k])])
    IN [k \in 1..Len(kept) |-> "  " \o Bullet \o " " \o kept[k]]

MinimalExperienceLines(entry) ==
    LET dates == IF entry.start # "" /\ entry.end # "" THEN " (" \o entry.start \o " - " \o entry.end \o ")"
                 ELSE IF entry.start # "" THEN " (" \o entry.start \o " - Present)"
                 ELSE ""
    IN IF entry.title = "" \/ entry.company = "" THEN <<>>
       ELSE <<Bullet \o " " \o entry.title \o " at " \o entry.company \o dates>>
            \o SubBullets(entry.responsibilities) \o SubBullets(entry.achievements) \o <<"">>

MinimalProjectLines(entry) ==
    IF entry.name = "" THEN <<>>
    ELSE <<Bullet \o " " \o entry.name \o (IF entry.link = "" THEN "" ELSE " (" \o entry.link \o ")")>>
         \o (IF entry.description = "" THEN <<>> ELSE <<"  " \o entry.description>>)
         \o (IF entry.technologies = "" THEN <<>> ELSE <<"  Technologies: " \o entry.technologies>>)
         \o <<"">>

MinimalCustomLines(section) ==
    IF section.title = "" \/ section.content = "" THEN <<>>
    ELSE <<Upper(section.title), MinimalDivider, section.content, "">>

_create_minimal_fallback(data) ==
    LET contact == NonEmpty(<<IF data.email = "" THEN "" ELSE "Email: " \o data.email,
                              IF data.phone = "" THEN "" ELSE "Phone: " \o data.phone,
                              IF data.location = "" THEN "" ELSE "Location: " \o data.location,
                              IF data.linkedin = "" THEN "" ELSE "LinkedIn: " \o data.linkedin,
                              IF data.website = "" THEN "" ELSE "Website: " \o data.website>>)
        ed == data.education_entries
        ex == data.experience_entries
        pr == data.project_entries
        cu == data.custom_sections
    IN Join(<<Upper(data.name), Concat([k \in 1..Len(data.name) |-> "="]), "">>
            \o (IF contact = <<>> THEN <<>> ELSE <<Join(contact, " | "), "">>)
            \o MinimalBlock("PROFESSIONAL SUMMARY", data.objective)
            \o MinimalBlock("TECHNICAL SKILLS", data.skills)
            \o (IF ed = <<>> THEN MinimalBlock("EDUCATION", data.education)
                ELSE <<"EDUCATION", MinimalDivider>>
                     \o Flat([k \in 1..Len(ed) |-> MinimalEducationLines(ed[k])]) \o <<"">>)
            \o (IF ex = <<>> THEN MinimalBlock("PROFESSIONAL EXPERIENCE", data.experience)
                ELSE <<"PROFESSIONAL EXPERIENCE", MinimalDivider>>
                     \o Flat([k \in 1..Len(ex) |-> MinimalExperienceLines(ex[k])]) \o <<"">>)
            \o (IF pr = <<>> THEN MinimalBlock("PROJECTS", data.projects)
                ELSE <<"PROJECTS", MinimalDivider>>
                     \o Flat([k \in 1..Len(pr) |-> MinimalProjectLines(pr[k])]) \o <<"">>)
            \o Flat([k \in 1..Len(cu) |-> MinimalCustomLines(cu[k])]),
            "\n")

\* simple_builder.generate_resume(data, style): the builder's text, or the minimal
\* fallback when the builder raised or returned a blank text
simple_generate_resume(data, style, enhancer, nlp, keywords) ==
    LET Result(built) ==
            IF ~built.raised /\ Strip(built.text) # "" THEN built
            ELSE IF MinimalFallbackRaises(data) THEN Raised
            ELSE Returned(_create_minimal_fallback(data))
    IN Result(generate_resume(data, style, enhancer, nlp, keywords))

(***************************************************************************)
(* State.  Each specification below drives one component and leaves the    *)
(* variables of the others at their initial values.                        *)
(***************************************************************************)
VARIABLES
    op,          \* the operation performed last, "init" before the first
    nlp_engine,  \* whether ContentEnhancer.nlp_engine is set (NLPEngine() succeeded)
    sentence,    \* transformer: the sentence passed in
    bullet,      \* transformer: the value returned
    data,        \* assembler: the resume record
    style,       \* assembler: the style argument
    enhancer,    \* assembler: whether ContentEnhancer() could be constructed
    outcome,     \* assembler: what the call did, Raised or Returned(text)
    session,     \* web application: session['resume_data']
    used_style,  \* web application: the style the last request rendered or generated with
    response,    \* web application: the kind of response of the last request
    fs,          \* exporters: the content of each file
    dirs,        \* exporters: the directories that exist
    export,      \* exporters: the last call and its return value
    openai_client, \* remote polishing: whether ContentEnhancer.openai_client is set
    remote,      \* remote polishing: the requests sent during the last call, with their replies
    now,         \* downloads: the wall clock, in half seconds
    download,    \* downloads: each /download_resume request, its inputs and where it stands
    outputs,     \* downloads: the content of each file of OUTPUT_DIR
    rerun,       \* reproducibility: the value a second execution returned
    form_data,   \* form extraction: request.form, the value submitted under each key
    entries,     \* form extraction: the list extract_entries returned
    document,    \* renderers: the resume text handed to the exporter
    rendered,    \* renderers: the paragraphs of the last export, each with its line class
    scan,        \* PDF renderer: the loop of export_to_pdf over the lines, line by line
    resumes,     \* dashboard: the rows of the table 'resumes'
    request      \* dashboard: each request in flight, its inputs and where it stands

enhVars == <<sentence, bullet>>
asmVars == <<data, style, enhancer, outcome>>
appVars == <<session, used_style, response>>
expVars == <<fs, dirs, export>>
polVars == <<openai_client, remote>>
dlVars == <<now, download, outputs>>
detVars == <<rerun>>
formVars == <<form_data, entries>>
renVars == <<document, rendered, scan>>
dbVars == <<resumes, request>>
vars == <<op, nlp_engine, enhVars, asmVars, appVars, expVars, polVars, dlVars, detVars,
          formVars, renVars, dbVars>>

\* config.py
SUPPORTED_STYLES == {"simple", "modern", "academic"}

NoEntries == <<>>
\* a record with every key empty
EmptyData ==
    [name |-> "", email |-> "", phone |-> "", location |-> "", linkedin |-> "", website |-> "",
     objective |-> "", skills |-> "", education |-> "", experience |-> "", projects |-> "",
     education_entries |-> NoEntries, experience_entries |-> NoEntries,
     project_entries |-> NoEntries, custom_sections |-> NoEntries, ints |-> {}]

\* no resume_data in the session
NoSession == [present |-> FALSE, resume_text |-> "", style |-> "", form_data |-> EmptyData]

\* a file that does not exist, and the bytes a DOCX or PDF serializer writes
Absent == "<absent>"
Binary == "<document>"

\* the paths the exporters can touch
ExportPaths == {"out/r.docx", "out/r.pdf", "out/r", "d.docx/r.docx"}
ExportFiles == ExportPaths \cup {"out/r.txt", "d.txt/r.txt"}
NoExport == [fn |-> "none", text |-> "", path |-> "", fault |-> "none", failed |-> FALSE,
             result |-> "none", calls |-> 0]

EnhIdle == sentence = "" /\ bullet = ""
AsmIdle == data = EmptyData /\ style = "modern" /\ enhancer = TRUE /\ outcome = Returned("")
AppIdle == session = NoSession /\ used_style = "" /\ response = "none"
ExpIdle == fs = [f \in ExportFiles |-> Absent] /\ dirs = {} /\ export = NoExport
\* no OPENAI_API_KEY in the environment: no client, nothing sent
PolIdle == openai_client = FALSE /\ remote = <<>>

\* the /download_resume requests in flight, and how long the clock runs (half seconds)
Requests == {1, 2}
MaxTicks == 3
DownloadStyles == {"modern", "simple"}
DownloadFormats == {"docx", "pdf"}

\* datetime.now().strftime("%Y%m%d_%H%M%S") at the clock value t: whole seconds only
strftime(t) ==
    LET seconds == t \div 2
    IN "20261102_1200" \o Char("0123456789", (seconds \div 10) + 1)
                       \o Char("0123456789", (seconds % 10) + 1)

\* os.path.join(OUTPUT_DIR, f"resume_{style}_{timestamp}.{format_type}")
Filepath(s, timestamp, format_type) ==
    "generated/" \o "resume_" \o s \o "_" \o timestamp \o "." \o format_type

\* the files a download can write: the export and the text file of the fallback
OutputFiles ==
    {Filepath(s, strftime(t), f) :
        s \in DownloadStyles, t \in 0..MaxTicks, f \in DownloadFormats \cup {"txt"}}

NoDownload ==
    [pc |-> "idle", resume_text |-> "", style |-> "", format |-> "", filepath |-> "",
     fault |-> FALSE, response |-> "none"]
DlIdle ==
    now = 0 /\ download = [r \in Requests |-> NoDownload]
    /\ outputs = [f \in OutputFiles |-> Absent]
DetIdle == rerun = ""
\* an empty form, nothing extracted
FormIdle == form_data = <<>> /\ entries = <<>>
\* nothing exported, the loop not entered
RenIdle == document = "" /\ rendered = <<>> /\ scan = <<>>
\* an empty table, no request
DbIdle == resumes = <<>> /\ request = <<>>

(***************************************************************************)
(* The bullet transformer: one call of _transform_to_bullet or of          *)
(* _add_quantification on a sentence                                       *)
(***************************************************************************)
WeakPhrases == {verb_transformations[k][1] : k \in 1..Len(verb_transformations)}

\* sentences with each weak phrase of the table at the start, inside and capitalised
WeakSentences ==
    {w \o " the api for customers" : w \in WeakPhrases}
    \cup {"I " \o w \o " the team daily" : w \in WeakPhrases}
    \cup {Title(w) \o " reports" : w \in WeakPhrases}

\* sentences with and without a number, each with the cue of a canned metric phrase
NumberSentences ==
    { "Optimized speed by 40%.", "Reduced cost by $5.", "Optimized speed 3x.",
      "Saved time at a 10:1 ratio.", "Improved user rating to 4.5.",
      "Optimized speed of 3 pages.", "Reduced expense of 2k.",
      "Optimized speed of pages.", "Reduced cost of ops.", "Saved time for all.",
      "Improved user flows." }

TransformerInputs == WeakSentences \cup NumberSentences

InitEnh ==
    /\ op = "init"
    /\ nlp_engine \in BOOLEAN
    /\ sentence \in TransformerInputs
    /\ bullet = ""
    /\ AsmIdle /\ AppIdle /\ ExpIdle /\ PolIdle /\ DlIdle /\ DetIdle
    /\ FormIdle /\ RenIdle /\ DbIdle

TransformToBullet ==
    /\ op = "init"
    /\ bullet' = _transform_to_bullet(sentence, nlp_engine)
    /\ op' = "_transform_to_bullet"
    /\ UNCHANGED <<nlp_engine, formVars, renVars, dbVars, sentence, asmVars, appVars, expVars, polVars, dlVars, detVars>>

AddQuantification ==
    /\ op = "init"
    /\ bullet' = _add_quantification(sentence, nlp_engine)
    /\ op' = "_add_quantification"
    /\ UNCHANGED <<nlp_engine, formVars, renVars, dbVars, sentence, asmVars, appVars, expVars, polVars, dlVars, detVars>>

NextEnh == TransformToBullet \/ AddQuantification

SpecEnh == InitEnh /\ [][NextEnh]_vars

\* whether the weak phrase occurs in s as a whole word or phrase, in any letter case
WeakOccurs(s, weak) == \E i \in 1..Len(s) : WeakMatchAt(s, i, weak)

\* C4: the bullet returned for a sentence that contains a weak phrase of the table
\* does not contain that phrase (in any letter case) and contains the strong verb the
\* table maps that phrase to, for every entry of the table
C4_WeakPhraseReplaced ==
    op = "_transform_to_bullet" =>
        \A k \in 1..Len(verb_transformations) :
            WeakOccurs(sentence, verb_transformations[k][1]) =>
                /\ ~Contains(Lower(bullet), verb_transformations[k][1])
                /\ Contains(bullet, verb_transformations[k][2])

\* whether s has any digit, which every numeric pattern has
HasNumber(s) == \E i \in 1..Len(s) : Char(s, i) \in DigitSet

\* C6: _add_quantification returns a sentence that already has a number unchanged
C6_NumberLeftUnchanged ==
    op = "_add_quantification" /\ HasNumber(sentence) => bullet = sentence

\* a sentence with a number, a period and the cue of a canned phrase went through
\* _add_quantification without an engine and came back as it was
C6_Witness ==
    /\ op = "_add_quantification"
    /\ ~nlp_engine
    /\ HasNumber(sentence)
    /\ Contains(sentence, ".")
    /\ Contains(Lower(sentence), "speed") /\ Contains(Lower(sentence), "optim")
    /\ bullet = sentence

(***************************************************************************)
(* The assembler: one call of resume_builder.generate_resume or of          *)
(* simple_builder.generate_resume on a record                               *)
(***************************************************************************)
\* a field whose value is the int 5 prints as "5" wherever the code formats it
IntText == "5"

NoContact == [email |-> "", phone |-> "", location |-> "", linkedin |-> "", website |-> ""]
FullContact == [email |-> "jo@x.io", phone |-> "555-0100", location |-> "Pune",
                linkedin |-> "linkedin.com/in/jo", website |-> "jo.dev"]

NoBody ==
    [objective |-> "", skills |-> "", education |-> "", experience |-> "", projects |-> "",
     education_entries |-> NoEntries, experience_entries |-> NoEntries,
     project_entries |-> NoEntries, custom_sections |-> NoEntries]
\* legacy fields of white space only
BlankBody == [NoBody EXCEPT !.skills = " ", !.education = " ", !.experience = " "]
SummaryBody ==
    [NoBody EXCEPT !.objective = "python developer with 3 years experience building apis",
                   !.skills = "python, sql"]
\* every section as one legacy text field
LegacyBody ==
    [SummaryBody EXCEPT !.education = "BS CS, MIT",
                        !.experience = "worked on apis. helped the team ship the product",
                        !.projects = "made a web app with flask"]
\* every section as structured entries, with two custom sections
EntriesBody ==
    [SummaryBody EXCEPT
        !.education_entries = <<[institution |-> "MIT", degree |-> "BS", field |-> "CS",
                                 start |-> "2015", end |-> "2019", gpa |-> "3.9",
                                 achievements |-> "honors"]>>,
        !.experience_entries = <<[company |-> "Acme", title |-> "Engineer", start |-> "2019",
                                  end |-> "",
                                  responsibilities |-> "Led backend team\nOptimize cloud infra",
                                  achievements |-> "Reduced latency by 40%."]>>,
        !.project_entries = <<[name |-> "Resume AI", description |-> "made a web app with flask",
                               technologies |-> "python, flask", link |-> "",
                               start |-> "", end |-> ""]>>,
        !.custom_sections = <<[title |-> "awards", content |-> "hackathon winner"],
                              [title |-> "open source", content |-> "maintainer of a cli tool"]>>]

Bodies == {NoBody, BlankBody, SummaryBody, LegacyBody, EntriesBody}

\* the sets of fields that hold an int instead of a str
IntFields ==
    { {}, {"location"}, {"linkedin"}, {"objective"}, {"skills"}, {"education"},
      {"experience"}, {"projects"}, {"content"}, {"linkedin", "objective"} }

\* the record with the given name, contact fields and body, and with the fields of
\* ints holding the int 5; "content" is the content of the first custom section
MakeRecord(name, contact, body, ints) ==
    LET V(key, value) == IF key \in ints THEN IntText ELSE value
        custom == body.custom_sections
    IN [name |-> name,
        email |-> contact.email, phone |-> contact.phone,
        location |-> V("location", contact.location),
        linkedin |-> V("linkedin", contact.linkedin),
        website |-> contact.website,
        objective |-> V("objective", body.objective),
        skills |-> V("skills", body.skills),
        education |-> V("education", body.education),
        experience |-> V("experience", body.experience),
        projects |-> V("projects", body.projects),
        education_entries |-> body.education_entries,
        experience_entries |-> body.experience_entries,
        project_entries |-> body.project_entries,
        custom_sections |-> IF "content" \in ints
                            THEN [custom EXCEPT ![1].content = IntText] ELSE custom,
        ints |-> ints]

\* well-typed records, and records of one named person with ill-typed fields
AsmRecords ==
    {MakeRecord(name, contact, body, {}) :
        name \in {"jo li", " "}, contact \in {NoContact, FullContact}, body \in Bodies}
    \cup {MakeRecord("jo li", r[1], r[2], r[3]) :
            r \in {q \in {NoContact, FullContact} \X (Bodies \ {SummaryBody}) \X (IntFields \ {{}}) :
                     "content" \in q[3] => q[2].custom_sections # NoEntries}}

InitAsm ==
    /\ op = "init"
    /\ data \in AsmRecords
    /\ style \in SUPPORTED_STYLES
    /\ enhancer \in BOOLEAN
    /\ nlp_engine \in {b \in BOOLEAN : b => enhancer}
    /\ outcome = Returned("")
    /\ EnhIdle /\ AppIdle /\ ExpIdle /\ PolIdle /\ DlIdle /\ DetIdle
    /\ FormIdle /\ RenIdle /\ DbIdle

\* analyze_text(objective)["keywords"], read only when the summary is enhanced
ObjectiveKeywords ==
    IF SummaryRaises(data) THEN {<<>>} ELSE KeywordLists(Strip(data.objective), enhancer /\ nlp_engine)

\* resume_builder.generate_resume(data, style)
Generate ==
    /\ op = "init"
    /\ \E keywords \in ObjectiveKeywords :
           outcome' = generate_resume(data, style, enhancer, nlp_engine, keywords)
    /\ op' = "generate_resume"
    /\ UNCHANGED <<nlp_engine, formVars, renVars, dbVars, data, style, enhancer, enhVars, appVars, expVars, polVars, dlVars, detVars>>

\* simple_builder.generate_resume(data, style)
SimpleGenerate ==
    /\ op = "init"
    /\ \E keywords \in ObjectiveKeywords :
           outcome' = simple_generate_resume(data, style, enhancer, nlp_engine, keywords)
    /\ op' = "simple_generate_resume"
    /\ UNCHANGED <<nlp_engine, formVars, renVars, dbVars, data, style, enhancer, enhVars, appVars, expVars, polVars, dlVars, detVars>>

NextAsm == Generate \/ SimpleGenerate

SpecAsm == InitAsm /\ [][NextAsm]_vars

\* C1: for a record with a non-blank str name, whatever the other fields hold and
\* whether or not the enhancer could be constructed, generate_resume returns, and the
\* string it returns is not blank
C1_NeverEmpty ==
    /\ op \in {"generate_resume", "simple_generate_resume"}
    /\ ~IsInt(data, "name")
    /\ Strip(data.name) # ""
    => ~outcome.raised /\ Strip(outcome.text) # ""

\* the lines of the document returned
OutcomeLines == Lines(outcome.text)

\* the first line of s that is the label, 0 when no line is
LineIndex(lines, label) ==
    IF \E k \in 1..Len(lines) : lines[k] = label
    THEN CHOOSE k \in 1..Len(lines) : lines[k] = label /\ \A j \in 1..(k - 1) : lines[j] # label
    ELSE 0

\* the first line of each block in the order the document is specified to have: the
\* name, the five section headers, the titles of the custom sections as submitted
BlockLabels ==
    <<IF Strip(data.name) = "" THEN "Professional Resume" ELSE Title(Strip(data.name)),
      "Professional Summary", "Skills", "Education", "Experience", "Projects">>
    \o [k \in 1..Len(data.custom_sections) |-> Title(Strip(data.custom_sections[k].title))]

\* C2: the blocks of the document generate_resume returns are in the order Header,
\* Summary, Skills, Education, Experience, Projects, custom sections as submitted: no
\* block that is present precedes a present block that is earlier in this list
C2_SectionOrder ==
    op = "generate_resume" /\ ~outcome.raised =>
        \A i, j \in 1..Len(BlockLabels) :
            /\ i < j
            /\ LineIndex(OutcomeLines, BlockLabels[i]) > 0
            /\ LineIndex(OutcomeLines, BlockLabels[j]) > 0
            => LineIndex(OutcomeLines, BlockLabels[i]) < LineIndex(OutcomeLines, BlockLabels[j])

\* the section builders that raise on the record
RaisingBuilders ==
    {b \in {"header", "summary", "skills", "education", "experience", "projects", "custom"} :
        \/ b = "header" /\ HeaderRaises(data)
        \/ b = "summary" /\ SummaryRaises(data)
        \/ b = "skills" /\ SkillsRaises(data)
        \/ b = "education" /\ EducationRaises(data)
        \/ b = "experience" /\ ExperienceRaises(data)
        \/ b = "projects" /\ ProjectsRaises(data)
        \/ b = "custom" /\ CustomRaises(data)}

\* C3: when the builder of one section raises, generate_resume does not raise and the
\* document is made of the blocks of the other sections alone, each as its builder
\* returned it
C3_FailureIsolated ==
    op = "generate_resume" /\ Cardinality(RaisingBuilders) = 1 =>
        /\ ~outcome.raised
        /\ \E keywords \in ObjectiveKeywords :
               outcome.text = Strip(Join(resume_sections(data, enhancer, nlp_engine, keywords), "\n"))

\* the bullet lines of the Experience block of the document: the lines with the marker
\* between the header of the block and its divider
ExperienceBullets ==
    LET lines == OutcomeLines
        first == LineIndex(lines, "Experience")
    IN {k \in 1..Len(lines) :
            /\ first > 0 /\ k > first
            /\ StartsWith(lines[k], Bullet \o " ")
            /\ \A j \in first..k : lines[j] # Divider}

\* C5: every bullet line that generate_resume emits for the responsibilities and the
\* achievements of the experience entries begins, after the marker, with a word of the
\* allow-list of _ensure_strong_start, also for a text of several lines without
\* sentence punctuation
C5_BulletsStartStrong ==
    /\ op = "generate_resume"
    /\ ~outcome.raised
    /\ enhancer
    /\ data.ints = {}
    /\ data.experience_entries # NoEntries
    => \A k \in ExperienceBullets : StartsStrong(StripBulletMarker(OutcomeLines[k]))

\* C8: the style decides the casing of the title of a custom section: uppercase for
\* 'simple' and 'academic', title case for 'modern'
C8_StyleControlsCasing ==
    /\ op \in {"generate_resume", "simple_generate_resume"}
    /\ ~outcome.raised
    /\ data.ints = {}
    => \A k \in 1..Len(data.custom_sections) :
           LET title == Strip(data.custom_sections[k].title)
           IN /\ style \in {"simple", "academic"} => LineIndex(OutcomeLines, Upper(title)) > 0
              /\ style = "modern" => LineIndex(OutcomeLines, Title(title)) > 0

\* a record with summary, skills, education, experience and projects
Populated ==
    /\ data.ints = {}
    /\ Strip(data.objective) # "" /\ Strip(data.skills) # ""
    /\ Strip(data.education) # "" \/ data.education_entries # NoEntries
    /\ Strip(data.experience) # "" \/ data.experience_entries # NoEntries
    /\ Strip(data.projects) # "" \/ data.project_entries # NoEntries

\* C9: the document generated with style 'modern' for a record with summary, skills,
\* education, experience and projects has the headers PROFESSIONAL SUMMARY, TECHNICAL
\* SKILLS, EDUCATION, PROFESSIONAL EXPERIENCE and PROJECTS
C9_UppercaseHeaders ==
    /\ op \in {"generate_resume", "simple_generate_resume"}
    /\ style = "modern"
    /\ Populated
    => /\ ~outcome.raised
       /\ \A header \in {"PROFESSIONAL SUMMARY", "TECHNICAL SKILLS", "EDUCATION",
                         "PROFESSIONAL EXPERIENCE", "PROJECTS"} :
              Contains(outcome.text, header)

(***************************************************************************)
(* app.py: the requests that take a style, on one browser session.  session *)
(* is session['resume_data'] as the handlers read and write it.             *)
(***************************************************************************)
\* the style values a request can carry (the default 'modern' stands for a request
\* without one)
StyleInputs == {"simple", "modern", "academic", "fancy", " Simple "}

\* the resume_text values of a JSON request
TextInputs == {"", "Jo Li\nedited by hand"}

SkillsBody == [NoBody EXCEPT !.skills = "python, sql"]

\* what extract_form_data_optimized returns for the forms submitted: complete forms
\* with and without skills, a form without contact data, a form without a name
AppForms ==
    { MakeRecord("jo li", FullContact, NoBody, {}),
      MakeRecord("jo li", FullContact, SkillsBody, {}),
      MakeRecord("jo li", NoContact, SkillsBody, {}),
      MakeRecord("", FullContact, NoBody, {}) }

InitApp ==
    /\ op = "init"
    /\ nlp_engine \in BOOLEAN
    /\ session = NoSession
    /\ used_style = ""
    /\ response = "none"
    /\ EnhIdle /\ AsmIdle /\ ExpIdle /\ PolIdle /\ DlIdle /\ DetIdle
    /\ FormIdle /\ RenIdle /\ DbIdle

\* request.form.get("style", "modern").strip().lower(), replaced when not supported
FormStyle(raw) ==
    LET s == Lower(Strip(raw)) IN IF s \in SUPPORTED_STYLES THEN s ELSE "modern"

\* the values generate_resume(form, s) of core.simple_builder can return or raise
GeneratedBy(form, s) ==
    {simple_generate_resume(form, s, TRUE, nlp_engine, keywords) :
        keywords \in KeywordLists(Strip(form.objective), nlp_engine)}

\* POST /generate with the form and the style value of the request
GenerateRequest(form, raw) ==
    /\ op' = "generate"
    /\ IF form.name = "" \/ form.email = "" \/ form.phone = ""
       THEN /\ response' = "index"
            /\ UNCHANGED <<session, used_style>>
       ELSE \E built \in GeneratedBy(form, FormStyle(raw)) :
                /\ used_style' = FormStyle(raw)
                /\ IF built.raised \/ Strip(built.text) = ""
                   THEN response' = "index" /\ UNCHANGED session
                   ELSE /\ session' = [present |-> TRUE, resume_text |-> built.text,
                                       style |-> FormStyle(raw), form_data |-> form]
                        /\ response' = "redirect"
    /\ UNCHANGED <<nlp_engine, formVars, renVars, dbVars, enhVars, asmVars, expVars, polVars, dlVars, detVars>>

AppGenerate == \E form \in AppForms, raw \in StyleInputs : GenerateRequest(form, raw)

\* POST /preview
AppPreview ==
    \E form \in AppForms, raw \in StyleInputs :
        /\ op' = "preview"
        /\ \E built \in GeneratedBy(form, FormStyle(raw)) :
               /\ used_style' = FormStyle(raw)
               /\ response' = IF built.raised THEN "error" ELSE "success"
        /\ UNCHANGED <<session, nlp_engine, formVars, renVars, dbVars, enhVars, asmVars, expVars, polVars, dlVars, detVars>>

\* POST /change_style
AppChangeStyle ==
    \E resume_text \in TextInputs, raw \in StyleInputs :
        LET s == IF raw \in SUPPORTED_STYLES THEN raw ELSE "modern"
        IN /\ op' = "change_style"
           /\ session' = IF session.present THEN [session EXCEPT !.style = s] ELSE session
           /\ used_style' = s
           /\ response' = "success"
           /\ UNCHANGED <<nlp_engine, formVars, renVars, dbVars, enhVars, asmVars, expVars, polVars, dlVars, detVars>>

\* if not resume_text.strip(), with the strip left out
EmptyText(resume_text) == resume_text = ""

\* if not resume_text.strip()
BlankText(resume_text) == Strip(resume_text) = ""

\* POST /update_resume with the text and the style value of the request
UpdateRequest(resume_text, raw) ==
    /\ op' = "update_resume"
    /\ IF BlankText(resume_text)
       THEN /\ response' = "failure"
            /\ UNCHANGED <<session, used_style>>
       ELSE /\ session' = IF session.present
                          THEN [session EXCEPT !.resume_text = resume_text, !.style = raw]
                          ELSE session
            /\ used_style' = raw
            /\ response' = "success"
    /\ UNCHANGED <<nlp_engine, formVars, renVars, dbVars, enhVars, asmVars, expVars, polVars, dlVars, detVars>>

AppUpdateResume ==
    \E resume_text \in TextInputs, raw \in StyleInputs : UpdateRequest(resume_text, raw)

\* POST /regenerate_resume
AppRegenerate ==
    /\ op' = "regenerate_resume"
    /\ IF ~session.present
       THEN /\ response' = "failure"
            /\ UNCHANGED <<session, used_style>>
       ELSE \E built \in GeneratedBy(session.form_data, session.style) :
                /\ used_style' = session.style
                /\ IF built.raised \/ Strip(built.text) = ""
                   THEN response' = "failure" /\ UNCHANGED session
                   ELSE /\ session' = [session EXCEPT !.resume_text = built.text]
                        /\ response' = "success"
    /\ UNCHANGED <<nlp_engine, formVars, renVars, dbVars, enhVars, asmVars, expVars, polVars, dlVars, detVars>>

NextApp == AppGenerate \/ AppPreview \/ AppChangeStyle \/ AppUpdateResume \/ AppRegenerate

SpecApp == InitApp /\ [][NextApp]_vars

\* C7: generate, preview, change_style and update_resume replace a style that is not
\* supported by 'modern' before they use or store it, so the style a request works
\* with and the style in the session's resume data are always supported ones
C7_StyleAlwaysSupported ==
    session.present =>
        /\ session.style \in SUPPORTED_STYLES
        /\ op \in {"generate", "preview", "change_style", "update_resume"}
           /\ response \in {"redirect", "success"}
           => used_style \in SUPPORTED_STYLES

(***************************************************************************)
(* core/simple_exporter.py and core/exporter.py on a file system: fs is the *)
(* content of each file, dirs the directories that exist                    *)
(***************************************************************************)
\* the number of exports in one behaviour
MaxExports == 2

ExportTexts == {"Jo Li\nSkills", "Jo Li\nedited"}

\* what can go wrong in the serializer: nothing, python-docx or reportlab cannot be
\* imported, doc.save or doc.build raises
Faults == {"none", "import", "save"}

\* the index of the last "/" of the path, 0 when it has none
LastSlash(path) == Max({0} \cup {i \in 1..Len(path) : Char(path, i) = "/"})

\* os.path.dirname(path)
Dirname(path) == IF LastSlash(path) = 0 THEN "" ELSE SubSeq(path, 1, LastSlash(path) - 1)

\* whether open(path, 'w') can create the file: its directory exists
CanCreate(path, d) == Dirname(path) = "" \/ Dirname(path) \in d

\* os.makedirs(dir_path, exist_ok=True), skipped for a path without a directory
Makedirs(path, d) == IF Dirname(path) = "" THEN d ELSE d \cup {Dirname(path)}

\* the file system after a call and the value the call returned
Done(f, d, result) == [fs |-> f, dirs |-> d, result |-> result]

\* simple_exporter._save_as_text_fallback: the text is written beside the requested
\* path and copied onto it; shutil.copy2 raises when both are the same file and when
\* the directory of the requested path does not exist
_save_as_text_fallback(resume_text, original_filepath, original_format, f, d) ==
    LET text_filepath == Replace(original_filepath, "." \o original_format, ".txt")
        made == Makedirs(text_filepath, d)
        written == [f EXCEPT ![text_filepath] = resume_text]
    IN IF text_filepath = original_filepath THEN Done(written, made, "false")
       ELSE IF ~CanCreate(original_filepath, made) THEN Done(written, made, "false")
       ELSE Done([written EXCEPT ![original_filepath] = resume_text], made, "true")

\* simple_exporter.export_to_docx and export_to_pdf: the imports, the directory of the
\* file made, the document saved; any exception leads to the text fallback
SimpleExport(format, resume_text, filepath, fault, f, d) ==
    IF fault = "import" THEN _save_as_text_fallback(resume_text, filepath, format, f, d)
    ELSE IF fault = "save"
    THEN _save_as_text_fallback(resume_text, filepath, format, f, Makedirs(filepath, d))
    ELSE Done([f EXCEPT ![filepath] = Binary], Makedirs(filepath, d), "true")

export_to_docx(resume_text, filepath, fault, f, d) ==
    SimpleExport("docx", resume_text, filepath, fault, f, d)

export_to_pdf(resume_text, filepath, fault, f, d) ==
    SimpleExport("pdf", resume_text, filepath, fault, f, d)

\* exporter._save_as_text_fallback: the text is written to the path with its extension
\* changed to .txt, and a failure to write it is logged
exporter_save_as_text_fallback(resume_text, output_path, f, d) ==
    LET text_path == Replace(Replace(output_path, ".docx", ".txt"), ".pdf", ".txt")
    IN IF CanCreate(text_path, d) THEN Done([f EXCEPT ![text_path] = resume_text], d, "none")
       ELSE Done(f, d, "none")

\* whether the serializer of exporter.py raises: doc.save and doc.build raise on a
\* fault and when the directory of the file does not exist
ExporterFails(output_path, fault, d) == fault = "save" \/ ~CanCreate(output_path, d)

\* exporter.export_to_docx and export_to_pdf: no directory is made and nothing returned
exporter_export(resume_text, output_path, fault, f, d) ==
    IF ExporterFails(output_path, fault, d)
    THEN exporter_save_as_text_fallback(resume_text, output_path, f, d)
    ELSE Done([f EXCEPT ![output_path] = Binary], d, "none")

InitExp ==
    /\ op = "init"
    /\ nlp_engine = TRUE
    /\ fs = [file \in ExportFiles |-> Absent]
    /\ dirs \in SUBSET {"out"}
    /\ export = NoExport
    /\ EnhIdle /\ AsmIdle /\ AppIdle /\ PolIdle /\ DlIdle /\ DetIdle
    /\ FormIdle /\ RenIdle /\ DbIdle

\* the state after a call that left the file system as done says
Exported(fn, resume_text, path, fault, failed, done) ==
    /\ fs' = done.fs
    /\ dirs' = done.dirs
    /\ export' = [fn |-> fn, text |-> resume_text, path |-> path, fault |-> fault,
                  failed |-> failed, result |-> done.result, calls |-> export.calls + 1]
    /\ op' = fn
    /\ UNCHANGED <<nlp_engine, formVars, renVars, dbVars, enhVars, asmVars, appVars, polVars, dlVars, detVars>>

SimpleExportToDocx ==
    \E resume_text \in ExportTexts, path \in ExportPaths, fault \in Faults :
        /\ export.calls < MaxExports
        /\ Exported("simple_exporter.export_to_docx", resume_text, path, fault, fault # "none",
                    export_to_docx(resume_text, path, fault, fs, dirs))

SimpleExportToPdf ==
    \E resume_text \in ExportTexts, path \in ExportPaths, fault \in Faults :
        /\ export.calls < MaxExports
        /\ Exported("simple_exporter.export_to_pdf", resume_text, path, fault, fault # "none",
                    export_to_pdf(resume_text, path, fault, fs, dirs))

\* core.exporter can be called only when its imports at module level succeed
ExporterExportToDocx ==
    \E resume_text \in ExportTexts, path \in ExportPaths, fault \in Faults \ {"import"} :
        /\ export.calls < MaxExports
        /\ Exported("exporter.export_to_docx", resume_text, path, fault,
                    ExporterFails(path, fault, dirs),
                    exporter_export(resume_text, path, fault, fs, dirs))

ExporterExportToPdf ==
    \E resume_text \in ExportTexts, path \in ExportPaths, fault \in Faults \ {"import"} :
        /\ export.calls < MaxExports
        /\ Exported("exporter.export_to_pdf", resume_text, path, fault,
                    ExporterFails(path, fault, dirs),
                    exporter_export(resume_text, path, fault, fs, dirs))

NextExp == SimpleExportToDocx \/ SimpleExportToPdf \/ ExporterExportToDocx \/ ExporterExportToPdf

SpecExp == InitExp /\ [][NextExp]_vars

\* C10: when the DOCX or PDF serializer fails, the export call returns true and the
\* file at the requested path holds exactly the resume text that was passed in
C10_FallbackKeepsText ==
    export.failed => export.result = "true" /\ fs[export.path] = export.text

(***************************************************************************)
(* Remote polishing (core/content_enhancer.py): ai_polish, the three       *)
(* enhance_* methods with a client configured, and their *_with_ai         *)
(* variants.  The remote service answers each request as it likes.         *)
(***************************************************************************)
\* the replies of chat.completions.create: it raises (network, authentication), it
\* returns an object without choices or with content None (reading it raises), or it
\* returns a content string
RemoteError == [kind |-> "error", content |-> ""]
Malformed == [kind |-> "malformed", content |-> ""]
Content(text) == [kind |-> "text", content |-> text]

\* a text of n characters without white space
TextOfLen(n) == SubSeq(Concat([k \in 1..(n \div 10 + 1) |-> "Delivered."]), 1, n)

Replies ==
    {RemoteError, Malformed}
    \cup {Content(t) : t \in {"", "   ", "Too short.", "Polished it", "  Polished it \n",
                             "      tiny      ", TextOfLen(60)}}

\* what a call of ai_polish did: the text returned and the requests it sent
Unsent(text) == [text |-> text, remote |-> <<>>]
Sent(text, content_type, reply, result) ==
    [text |-> result,
     remote |-> <<[sent |-> text, content_type |-> content_type, reply |-> reply]>>]

\* a variant that estimates one token per 5 characters
estimated_tokens_by_five(text) == Len(text) \div 5
\* "rough estimate: 1 token = 4 characters"
estimated_tokens(text) == Len(text) \div 4
polished_text(reply) == Strip(reply.content)
\* a variant that accepts a response of exactly 10 characters
ValidResponseOfTen(polished) == polished # "" /\ Len(polished) >= 10
\* "if polished_text and len(polished_text) > 10"
ValidResponse(polished) == polished # "" /\ Len(polished) > 10

ai_polish(text, content_type, client, reply) ==
    IF ~client THEN Unsent(text)
    ELSE IF Len(Strip(text)) < 50 THEN Unsent(text)
    ELSE IF estimated_tokens(text) > 400 THEN Unsent(text)
    ELSE Sent(text, content_type, reply,
              IF reply.kind = "text" /\ ValidResponse(polished_text(reply))
              THEN polished_text(reply) ELSE text)

\* the end of enhance_experience, enhance_summary and enhance_projects:
\* "if self.openai_client and result: result = self.ai_polish(result, ...)"
PolishResult(result, content_type, client, reply) ==
    IF client /\ result # "" THEN ai_polish(result, content_type, client, reply)
    ELSE Unsent(result)

\* the *_with_ai variants: the method itself, then ai_polish on what it returned
WithAi(first, content_type, client, reply) ==
    IF client /\ first.text # ""
    THEN [text |-> ai_polish(first.text, content_type, client, reply).text,
          remote |-> first.remote \o ai_polish(first.text, content_type, client, reply).remote]
    ELSE first

\* texts handed to ai_polish directly: around the 50 character and the 400 token limits
PolishTexts ==
    {TextOfLen(n) : n \in {0, 10, 49, 50, 51, 1603, 1604}}
    \cup {"  " \o TextOfLen(48) \o "  ", " " \o TextOfLen(50) \o "\n"}

\* raw field texts handed to the enhance_* methods
FieldTexts ==
    { "", "led team",
      "Led backend team of five engineers across three product launches",
      "built the billing api and deployed it to aws for forty enterprise customers",
      "Backend engineer with 6 years of experience in python and aws" }

InitPol ==
    /\ op = "init"
    /\ nlp_engine \in BOOLEAN
    /\ openai_client \in BOOLEAN
    /\ sentence \in PolishTexts \cup FieldTexts
    /\ bullet = ""
    /\ remote = <<>>
    /\ AsmIdle /\ AppIdle /\ ExpIdle /\ DlIdle /\ DetIdle
    /\ FormIdle /\ RenIdle /\ DbIdle

\* one call of a method of the enhancer on the text, returning done
EnhancerCall(method, done) ==
    /\ bullet' = done.text
    /\ remote' = done.remote
    /\ op' = method
    /\ UNCHANGED <<nlp_engine, formVars, renVars, dbVars, sentence, openai_client, asmVars, appVars, expVars, dlVars, detVars>>

AiPolish ==
    /\ op = "init"
    /\ \E reply \in Replies :
           EnhancerCall("ai_polish", ai_polish(sentence, "general", openai_client, reply))

EnhanceExperience ==
    /\ op = "init" /\ sentence \in FieldTexts
    /\ \E reply \in Replies :
           EnhancerCall("enhance_experience",
                    PolishResult(enhance_experience(sentence, nlp_engine), "experience",
                                 openai_client, reply))

EnhanceSummary ==
    /\ op = "init" /\ sentence \in FieldTexts
    /\ \E reply \in Replies, keywords \in KeywordLists(sentence, nlp_engine) :
           EnhancerCall("enhance_summary",
                    PolishResult(enhance_summary(sentence, nlp_engine, keywords), "summary",
                                 openai_client, reply))

EnhanceProjects ==
    /\ op = "init" /\ sentence \in FieldTexts
    /\ \E reply \in Replies :
           EnhancerCall("enhance_projects",
                    PolishResult(enhance_projects(sentence, nlp_engine), "projects",
                                 openai_client, reply))

EnhanceExperienceWithAi ==
    /\ op = "init" /\ sentence \in FieldTexts
    /\ \E first \in Replies, second \in Replies :
           EnhancerCall("enhance_experience_with_ai",
                    WithAi(PolishResult(enhance_experience(sentence, nlp_engine), "experience",
                                        openai_client, first),
                           "experience", openai_client, second))

EnhanceSummaryWithAi ==
    /\ op = "init" /\ sentence \in FieldTexts
    /\ \E first \in Replies, second \in Replies, keywords \in KeywordLists(sentence, nlp_engine) :
           EnhancerCall("enhance_summary_with_ai",
                    WithAi(PolishResult(enhance_summary(sentence, nlp_engine, keywords), "summary",
                                        openai_client, first),
                           "summary", openai_client, second))

EnhanceProjectsWithAi ==
    /\ op = "init" /\ sentence \in FieldTexts
    /\ \E first \in Replies, second \in Replies :
           EnhancerCall("enhance_projects_with_ai",
                    WithAi(PolishResult(enhance_projects(sentence, nlp_engine), "projects",
                                        openai_client, first),
                           "projects", openai_client, second))

NextPol ==
    \/ AiPolish
    \/ EnhanceExperience \/ EnhanceSummary \/ EnhanceProjects
    \/ EnhanceExperienceWithAi \/ EnhanceSummaryWithAi \/ EnhanceProjectsWithAi

SpecPol == InitPol /\ [][NextPol]_vars

\* C11: ai_polish returns the stripped remote response, and then the call succeeded and
\* the stripped response has more than 10 characters, or it returns exactly the text it
\* was given; a call that failed or answered with nothing usable returns the text given
C11_PolishOrLocal ==
    op = "ai_polish" =>
        /\ \/ bullet = sentence
           \/ /\ remote # <<>>
              /\ remote[1].reply.kind = "text"
              /\ bullet = Strip(remote[1].reply.content)
              /\ Len(bullet) > 10
        /\ remote # <<>> /\ (remote[1].reply.kind # "text"
                             \/ Len(Strip(remote[1].reply.content)) <= 10)
           => bullet = sentence

\* a remote call answered with a usable response, which is returned in place of the text
C11_Witness ==
    /\ op = "ai_polish" /\ remote # <<>> /\ bullet # sentence
    /\ bullet = "Polished it"

\* a remote call that raised, after which the text comes back unchanged
C11_FailureWitness ==
    /\ op = "ai_polish" /\ remote # <<>> /\ remote[1].reply.kind = "error"
    /\ bullet = sentence

\* C12: ai_polish sends a request only with a client configured, a text of at least 50
\* characters and at most 400 estimated tokens (length divided by 4); otherwise nothing
\* is sent and the text is returned unchanged
C12_CallOnlyWithinBounds ==
    op = "ai_polish" =>
        /\ remote # <<>> =>
               openai_client /\ Len(sentence) >= 50 /\ Len(sentence) \div 4 <= 400
        /\ ~openai_client \/ Len(sentence) <= 49 \/ Len(sentence) \div 4 > 400
           => remote = <<>> /\ bullet = sentence

\* a text of more than 400 estimated tokens with a client configured: nothing is sent
C12_Witness ==
    /\ op = "ai_polish" /\ openai_client
    /\ Len(sentence) \div 4 > 400 /\ remote = <<>>

\* C13: one call of a public method of the enhancer on one field sends at most one
\* request to the remote service
C13_SingleAttempt ==
    op \in {"enhance_experience", "enhance_summary", "enhance_projects",
            "enhance_experience_with_ai", "enhance_summary_with_ai",
            "enhance_projects_with_ai"}
    => Len(remote) <= 1

(***************************************************************************)
(* The assembler on records that exercise the header, the skills section   *)
(* and the entry sections: generate_resume on a well-typed record          *)
(***************************************************************************)
\* records without a name, with a skills string
SkillsRecords ==
    {MakeRecord(name, NoContact, [NoBody EXCEPT !.skills = skills], {}) :
        name \in {"", "  "}, skills \in {"Python, React", "Python, Java", "Figma"}}

\* records with every combination of contact fields, the links with and without scheme
ContactRecords ==
    {MakeRecord("jo li",
                [location |-> c[1], email |-> c[2], phone |-> c[3], linkedin |-> c[4],
                 website |-> c[5]], NoBody, {}) :
        c \in {"", "Pune"} \X {"", "jo@x.io"} \X {"", "555-0100"}
              \X {"", "linkedin.com/in/jo", "https://linkedin.com/in/jo", "httpbin.org/jo"}
              \X {"", "jo.dev", "http://jo.dev", "httpd.example.org"}}

NoEducation ==
    [institution |-> "", degree |-> "", field |-> "", start |-> "", end |-> "", gpa |-> "",
     achievements |-> ""]
NoExperience ==
    [company |-> "", title |-> "", start |-> "", end |-> "", responsibilities |-> "",
     achievements |-> ""]
NoProject ==
    [name |-> "", description |-> "", technologies |-> "", link |-> "", start |-> "",
     end |-> ""]

\* entry lists that yield no line, one line, and more
EducationLists ==
    { <<NoEducation>>,
      <<[NoEducation EXCEPT !.institution = "MIT"]>>,
      <<[NoEducation EXCEPT !.institution = "MIT", !.degree = "BS"]>>,
      <<[NoEducation EXCEPT !.institution = "MIT"], [NoEducation EXCEPT !.degree = "MS"]>> }
ExperienceLists ==
    { <<NoExperience>>,
      <<[NoExperience EXCEPT !.title = "Engineer", !.company = "Acme"]>>,
      <<[NoExperience EXCEPT !.title = "Engineer", !.start = "2019"]>>,
      <<[NoExperience EXCEPT !.company = "Acme", !.responsibilities = "Led backend team"]>> }
ProjectLists ==
    { <<NoProject>>,
      <<[NoProject EXCEPT !.name = "Resume AI"]>>,
      <<[NoProject EXCEPT !.description = "built a web app with flask"]>>,
      <<[NoProject EXCEPT !.name = "Resume AI", !.technologies = "python, flask"]>> }

EntryRecords ==
    {MakeRecord("jo li", NoContact, [NoBody EXCEPT !.education_entries = e], {}) :
        e \in EducationLists}
    \cup {MakeRecord("jo li", NoContact, [NoBody EXCEPT !.experience_entries = e], {}) :
            e \in ExperienceLists}
    \cup {MakeRecord("jo li", NoContact, [NoBody EXCEPT !.project_entries = e], {}) :
            e \in ProjectLists}

InitDoc ==
    /\ op = "init"
    /\ data \in SkillsRecords \cup ContactRecords \cup EntryRecords
    /\ style = "modern"
    /\ enhancer \in BOOLEAN
    /\ nlp_engine \in {b \in BOOLEAN : b => enhancer}
    /\ outcome = Returned("")
    /\ EnhIdle /\ AppIdle /\ ExpIdle /\ PolIdle /\ DlIdle /\ DetIdle
    /\ FormIdle /\ RenIdle /\ DbIdle

SpecDoc == InitDoc /\ [][NextAsm]_vars

\* the lines of the document from the line after the header line to the line before
\* the next divider, <<>> when the header line is absent
SectionLines(header) ==
    LET lines == OutcomeLines
        h == LineIndex(lines, header)
        ends == {k \in (h + 1)..Len(lines) : lines[k] = Divider}
    IN IF h = 0 \/ ends = {} THEN <<>> ELSE SubSeq(lines, h + 1, Min(ends) - 1)

\* the skills listed in the record, as split at the commas
ListedSkills ==
    LET pieces == Split(data.skills, {","})
    IN NonEmpty([k \in 1..Len(pieces) |-> Strip(pieces[k])])

\* C14: for a record with a blank name and a comma-separated skills string the first
\* line of the document is "Professional Resume" and the lines of the Skills section
\* are one bullet line per listed skill
C14_BlankNameSkillBullets ==
    /\ op \in {"generate_resume", "simple_generate_resume"}
    /\ data \in SkillsRecords
    => /\ ~outcome.raised
       /\ OutcomeLines[1] = "Professional Resume"
       /\ SectionLines("Skills") = [k \in 1..Len(ListedSkills) |-> Bullet \o " " \o ListedSkills[k]]

\* whether a link carries a URL scheme
HasScheme(url) == StartsWith(Lower(url), "http://") \/ StartsWith(Lower(url), "https://")

\* the contact line the header is specified to have: the non-empty contact fields in
\* the order location, email, phone, linkedin, website, each link with https:// put
\* before it when it carries no scheme
ContactFields ==
    LET Link(url) == IF url = "" \/ HasScheme(url) THEN url ELSE "https://" \o url
    IN NonEmpty(<<data.location, data.email, data.phone, Link(data.linkedin),
                  Link(data.website)>>)

\* C15: the second line of the header is the non-empty contact fields joined by " | "
\* in the order location, email, phone, linkedin, website, absent when all are empty,
\* each link prefixed with https:// exactly when it carries no scheme
C15_ContactLine ==
    /\ op \in {"generate_resume", "simple_generate_resume"}
    /\ data \in ContactRecords
    => /\ ~outcome.raised
       /\ OutcomeLines[1] = Title(Strip(data.name))
       /\ IF ContactFields = <<>> THEN Len(OutcomeLines) = 1
          ELSE Len(OutcomeLines) = 2 /\ OutcomeLines[2] = Join(ContactFields, " | ")

\* C16: in the document generate_resume returns, a divider line that is not the last
\* line is followed by exactly one blank line and then by the next block: it is never
\* immediately followed by the header line of the next block
C16_BlankLineBetweenBlocks ==
    op = "generate_resume" /\ ~outcome.raised =>
        \A k \in 1..(Len(OutcomeLines) - 1) :
            OutcomeLines[k] = Divider =>
                /\ OutcomeLines[k + 1] = ""
                /\ k + 2 <= Len(OutcomeLines)
                /\ OutcomeLines[k + 2] # ""

\* the content lines the entries of each entry section yield, by the header of the section
EntryContent ==
    [h \in {"Education", "Experience", "Projects"} |->
        NonEmpty(
            IF h = "Education"
            THEN Flat([k \in 1..Len(data.education_entries) |->
                          EducationEntryLines(data.education_entries[k])])
            ELSE IF h = "Experience"
            THEN Flat([k \in 1..Len(data.experience_entries) |->
                          ExperienceEntryLines(data.experience_entries[k], enhancer, nlp_engine)])
            ELSE Flat([k \in 1..Len(data.project_entries) |->
                          ProjectEntryLines(data.project_entries[k], enhancer, nlp_engine)]))]

\* the entries submitted for each entry section
SubmittedEntries ==
    [h \in {"Education", "Experience", "Projects"} |->
        IF h = "Education" THEN data.education_entries
        ELSE IF h = "Experience" THEN data.experience_entries
        ELSE data.project_entries]

Emitted(header) == LineIndex(OutcomeLines, header) > 0

SkillTokens == {"Python", "React", "PostgreSQL", "AWS", "Git", "Excel", "Django", "C", "R"}

\* two skills separated by a comma, and strings with the other delimiters
SkillInputs ==
    {a \o ", " \o b : a \in SkillTokens, b \in SkillTokens}
    \cup {"Python; C | R\nGit", "AWS|Excel;;React", "C", "Python", ""}

InitSkl ==
    /\ op = "init"
    /\ nlp_engine \in BOOLEAN
    /\ sentence \in SkillInputs
    /\ bullet = ""
    /\ AsmIdle /\ AppIdle /\ ExpIdle /\ PolIdle /\ DlIdle /\ DetIdle
    /\ FormIdle /\ RenIdle /\ DbIdle

EnhanceSkills ==
    /\ op = "init"
    /\ bullet' = enhance_skills(sentence)
    /\ op' = "enhance_skills"
    /\ UNCHANGED <<nlp_engine, formVars, renVars, dbVars, sentence, asmVars, appVars, expVars, polVars, dlVars, detVars>>

NextSkl == EnhanceSkills

SpecSkl == InitSkl /\ [][NextSkl]_vars

\* the non-empty tokens of the raw skills, split at , ; | and newline
RawTokens ==
    LET pieces == Split(sentence, {",", ";", "|", "\n"})
    IN NonEmpty([k \in 1..Len(pieces) |-> Strip(pieces[k])])

\* the category lines of the output, each as <<category, skills listed>>
CategoryLines ==
    LET lines == IF bullet = "" THEN <<>> ELSE Lines(bullet)
        Colon(line) == Min({i \in 1..Len(line) : MatchAt(line, i, ": ")} \cup {Len(line) + 1})
        Listed(text) == LET pieces == Split(text, {","})
                        IN {Strip(pieces[k]) : k \in 1..Len(pieces)}
    IN [k \in 1..Len(lines) |->
           <<SubSeq(lines[k], 1, Colon(lines[k]) - 1), Listed(From(lines[k], Colon(lines[k]) + 2))>>]

\* the position of a category name in the fixed order, 0 for any other text
CategoryRank(name) ==
    IF \E c \in 1..Len(skill_categories) : skill_categories[c][1] = name
    THEN CHOOSE c \in 1..Len(skill_categories) : skill_categories[c][1] = name
    ELSE 0

\* C18: every non-empty token of the raw skills, one-character tokens included, is
\* listed in exactly one category line of the output of enhance_skills, the line of the
\* first category whose vocabulary has a term inside the token (Tools & Platforms when
\* none has); the category lines are in the fixed order, and none is empty
C18_SkillsPartition ==
    op = "enhance_skills" =>
        /\ \A t \in Range(RawTokens) :
               /\ Cardinality({k \in DOMAIN CategoryLines : t \in CategoryLines[k][2]}) = 1
               /\ \A k \in DOMAIN CategoryLines :
                      t \in CategoryLines[k][2] =>
                          CategoryRank(CategoryLines[k][1]) = CategoryOf(t)
        /\ \A k \in DOMAIN CategoryLines :
               /\ CategoryRank(CategoryLines[k][1]) > 0
               /\ CategoryLines[k][2] \subseteq Range(RawTokens)
               /\ CategoryLines[k][2] # {}
               /\ k > 1 => CategoryRank(CategoryLines[k - 1][1]) < CategoryRank(CategoryLines[k][1])

(***************************************************************************)
(* Downloads (app.py download_resume): two requests handled by the         *)
(* threads of the server, each naming its file after the clock, exporting  *)
(* to it and sending it                                                    *)
(***************************************************************************)
\* the resume text each request carries, "" for a request without text
DownloadTexts == [r \in Requests |-> {"", IF r = 1 THEN "Jo Li\nSkills" ELSE "Al Wu\nSkills"}]

InitDl ==
    /\ op = "init"
    /\ nlp_engine = FALSE
    /\ DlIdle
    /\ EnhIdle /\ AsmIdle /\ AppIdle /\ ExpIdle /\ PolIdle /\ DetIdle
    /\ FormIdle /\ RenIdle /\ DbIdle

\* the clock advances by half a second
Tick ==
    /\ now < MaxTicks
    /\ now' = now + 1
    /\ op' = "tick"
    /\ UNCHANGED <<nlp_engine, formVars, renVars, dbVars, download, outputs, enhVars, asmVars, appVars, expVars, polVars,
                   detVars>>

\* download_resume up to the file name: the inputs are read, an empty text is answered
\* with an error, otherwise the path is made of the style, the time and the format
DownloadBegin(r) ==
    /\ download[r].pc = "idle"
    /\ \E resume_text \in DownloadTexts[r], s \in DownloadStyles, format_type \in DownloadFormats,
          fault \in BOOLEAN :
           download' = [download EXCEPT ![r] =
               IF Strip(resume_text) = ""
               THEN [NoDownload EXCEPT !.pc = "done", !.response = "error"]
               ELSE [pc |-> "named", resume_text |-> resume_text, style |-> s,
                     format |-> format_type,
                     filepath |-> Filepath(s, strftime(now), format_type),
                     fault |-> fault, response |-> "none"]]
    /\ op' = "download_resume"
    /\ UNCHANGED <<nlp_engine, formVars, renVars, dbVars, now, outputs, enhVars, asmVars, appVars, expVars, polVars, detVars>>

\* the text file the fallback of the exporter writes beside the file
TextSibling(d) == Replace(d.filepath, "." \o d.format, ".txt")

\* export_to_docx or export_to_pdf on the path: the document, or when the serializer
\* fails the text, in a text file and copied to the path
DownloadExport(r) ==
    /\ download[r].pc = "named"
    /\ outputs' =
           IF download[r].fault
           THEN [outputs EXCEPT ![TextSibling(download[r])] = download[r].resume_text,
                                ![download[r].filepath] = download[r].resume_text]
           ELSE [outputs EXCEPT ![download[r].filepath] = Binary \o download[r].resume_text]
    /\ download' = [download EXCEPT ![r].pc = "exported"]
    /\ op' = "download_resume"
    /\ UNCHANGED <<nlp_engine, formVars, renVars, dbVars, now, enhVars, asmVars, appVars, expVars, polVars, detVars>>

\* send_file(filepath): the file at the path as it is now, an error when there is none
DownloadSend(r) ==
    /\ download[r].pc = "exported"
    /\ download' = [download EXCEPT
           ![r].pc = "done",
           ![r].response = IF outputs[download[r].filepath] = Absent THEN "error"
                           ELSE outputs[download[r].filepath]]
    /\ op' = "download_resume"
    /\ UNCHANGED <<nlp_engine, formVars, renVars, dbVars, now, outputs, enhVars, asmVars, appVars, expVars, polVars, detVars>>

NextDl ==
    \/ Tick
    \/ \E r \in Requests : DownloadBegin(r)
    \/ \E r \in Requests : DownloadExport(r)
    \/ \E r \in Requests : DownloadSend(r)

SpecDl == InitDl /\ [][NextDl]_vars

\* C19: any two download requests write to distinct paths, and the file a request
\* sends is the export of its own text
C19_DistinctOutputPaths ==
    /\ \A r, q \in Requests :
           r # q /\ download[r].filepath # "" /\ download[q].filepath # ""
           => download[r].filepath # download[q].filepath
    /\ \A r \in Requests :
           download[r].pc = "done" /\ download[r].response # "error"
           => download[r].response \in {download[r].resume_text,
                                        Binary \o download[r].resume_text}

(***************************************************************************)
(* Reproducibility: enhance_summary executed twice on the same raw         *)
(* summary, in two runs of the program, with no remote client.  The order  *)
(* of analysis["keywords"] is that of a set of str, which changes with     *)
(* the hash seed of the run.                                               *)
(***************************************************************************)
SummaryTexts ==
    { "", "python dev", "python and aws dev", "sql, aws, git, python",
      "data analyst with 4 years of experience in sql and python" }

InitDet ==
    /\ op = "init"
    /\ nlp_engine \in BOOLEAN
    /\ sentence \in SummaryTexts
    /\ bullet = ""
    /\ rerun = ""
    /\ AsmIdle /\ AppIdle /\ ExpIdle /\ PolIdle /\ DlIdle
    /\ FormIdle /\ RenIdle /\ DbIdle

\* the first execution
SummaryFirst ==
    /\ op = "init"
    /\ \E keywords \in KeywordLists(sentence, nlp_engine) :
           bullet' = enhance_summary(sentence, nlp_engine, keywords)
    /\ op' = "enhance_summary"
    /\ UNCHANGED <<nlp_engine, formVars, renVars, dbVars, sentence, rerun, asmVars, appVars, expVars, polVars, dlVars>>

\* the second execution, on the same input
SummaryAgain ==
    /\ op = "enhance_summary"
    /\ \E keywords \in KeywordLists(sentence, nlp_engine) :
           rerun' = enhance_summary(sentence, nlp_engine, keywords)
    /\ op' = "enhance_summary_again"
    /\ UNCHANGED <<nlp_engine, formVars, renVars, dbVars, sentence, bullet, asmVars, appVars, expVars, polVars, dlVars>>

NextDet == SummaryFirst \/ SummaryAgain

SpecDet == InitDet /\ [][NextDet]_vars

\* C20: with no remote client, two executions of enhance_summary on the same input
\* return the same text, whatever order the keywords come in
C20_SummaryReproducible ==
    op = "enhance_summary_again" => rerun = bullet

(***************************************************************************)
(* app.py: extract_entries on the numbered fields of a submitted form       *)
(***************************************************************************)
\* the highest index the form of a behaviour carries fields for
MaxIndex == 3
\* while i <= 20
EntryLimit == 20

\* the fields of a custom section, and the values a field is submitted with
CustomFields == <<"title", "content">>
FieldValues == {"", " ", " Talks "}

\* f"{entry_type}_{field}_{i}"
FormKey(entry_type, field, i) == entry_type \o "_" \o field \o "_" \o ToString(i)

FormKeys ==
    {FormKey("custom", CustomFields[f], i) : f \in 1..Len(CustomFields), i \in 1..MaxIndex}

\* form_data.get(key, "")
FormGet(f, key) == IF key \in DOMAIN f THEN f[key] ELSE ""

\* the entry built at index i: every field stripped
FormEntry(f, entry_type, fields, i) ==
    [k \in 1..Len(fields) |-> Strip(FormGet(f, FormKey(entry_type, fields[k], i)))]

\* has_data: some field of the entry is not empty
has_data(entry) == \E k \in 1..Len(entry) : entry[k] # ""

\* the loop of extract_entries from index i on: it ends at the first entry without data
RECURSIVE ExtractFrom(_, _, _, _)
ExtractFrom(f, entry_type, fields, i) ==
    IF i > EntryLimit THEN <<>>
    ELSE IF has_data(FormEntry(f, entry_type, fields, i))
         THEN <<FormEntry(f, entry_type, fields, i)>> \o ExtractFrom(f, entry_type, fields, i + 1)
         ELSE <<>>

extract_entries(f, entry_type, fields) == ExtractFrom(f, entry_type, fields, 1)

InitForm ==
    /\ op = "init"
    /\ nlp_engine = TRUE
    /\ form_data \in [FormKeys -> FieldValues]
    /\ entries = <<>>
    /\ EnhIdle /\ AsmIdle /\ AppIdle /\ ExpIdle /\ PolIdle /\ DlIdle /\ DetIdle
    /\ RenIdle /\ DbIdle

ExtractEntries ==
    /\ op = "init"
    /\ entries' = extract_entries(form_data, "custom", CustomFields)
    /\ op' = "extract_entries"
    /\ UNCHANGED <<nlp_engine, form_data, enhVars, asmVars, appVars, expVars, polVars, dlVars,
                   detVars, renVars, dbVars>>

NextForm == ExtractEntries

SpecForm == InitForm /\ [][NextForm]_vars

\* the entries with data at the indices 1 to 20, in index order
RECURSIVE EntriesWithData(_, _, _, _)
EntriesWithData(f, entry_type, fields, i) ==
    IF i > EntryLimit THEN <<>>
    ELSE (IF has_data(FormEntry(f, entry_type, fields, i))
          THEN <<FormEntry(f, entry_type, fields, i)>> ELSE <<>>)
         \o EntriesWithData(f, entry_type, fields, i + 1)

\* C21: extract_entries returns exactly the entries of the indices 1 to 20 that have a
\* non-empty field, in index order: an entry without data is left out and the entries with
\* data after it are kept
C21_EntriesWithDataKept ==
    op = "extract_entries" => entries = EntriesWithData(form_data, "custom", CustomFields, 1)

(***************************************************************************)
(* The canned metric phrases on sentences with several periods or none      *)
(***************************************************************************)
\* an improvement verb with the noun of each cue of _add_quantification
CueStarts ==
    {"Optimized the speed", "Reduced the cost", "Saved time", "Enhanced the customer portal"}

\* what follows: one terminal period, none (a segmented sentence), periods inside a word
CueEnds ==
    {" of services.", " of services", " of Node.js services.", " of Node.js services",
     " at Acme Inc."}

CueSentences == {start \o end : start \in CueStarts, end \in CueEnds}

InitCue ==
    /\ op = "init"
    /\ nlp_engine \in BOOLEAN
    /\ sentence \in CueSentences
    /\ bullet = ""
    /\ AsmIdle /\ AppIdle /\ ExpIdle /\ PolIdle /\ DlIdle /\ DetIdle
    /\ FormIdle /\ RenIdle /\ DbIdle

SpecCue == InitCue /\ [][NextEnh]_vars

\* the phrase _add_quantification has for the cue of a sentence, "" without a cue
CannedPhrase(s) ==
    LET low == Lower(s)
    IN IF Contains(low, "performance") \/ Contains(low, "speed")
       THEN IF Contains(low, "improv") \/ Contains(low, "optim")
            THEN ", improving performance by 25%." ELSE ""
       ELSE IF Contains(low, "cost") \/ Contains(low, "expense")
       THEN IF Contains(low, "reduc") \/ Contains(low, "sav")
            THEN ", reducing costs by 20%." ELSE ""
       ELSE IF Contains(low, "time")
       THEN IF Contains(low, "reduc") \/ Contains(low, "sav")
            THEN ", saving 15 hours per week." ELSE ""
       ELSE IF Contains(low, "user") \/ Contains(low, "customer")
       THEN IF Contains(low, "improv") \/ Contains(low, "enhanc")
            THEN ", improving user satisfaction by 30%." ELSE ""
       ELSE ""

\* the number of places where p occurs in s
Occurrences(s, p) ==
    Cardinality({i \in 1..(Len(s) - Len(p) + 1) : SubSeq(s, i, i + Len(p) - 1) = p})

\* C22: the bullet of a sentence without a digit that has the cue of a canned metric
\* phrase contains that phrase exactly once and ends with it, whatever periods the
\* sentence has inside and whether or not it ends with one
C22_MetricOnceAtEnd ==
    /\ op = "_transform_to_bullet"
    /\ ~HasNumber(sentence)
    /\ CannedPhrase(sentence) # ""
    => /\ Occurrences(bullet, CannedPhrase(sentence)) = 1
       /\ EndsWith(bullet, CannedPhrase(sentence))

(***************************************************************************)
(* The passive-to-active step on its own: one call of                       *)
(* _convert_to_active_voice, or of the whole _transform_to_bullet            *)
(***************************************************************************)
PassiveSubjects == {"The report", "This", "The analysis", "Our basis", "Results"}

\* an auxiliary before a word in 'ed', before another word, and no auxiliary at all
PassiveEnds ==
    {" was reviewed", " were tested daily", " has been deployed", " have been trained",
     " is reducing load", " are published", " applied research", " needed help"}

PassiveSentences == {subject \o end : subject \in PassiveSubjects, end \in PassiveEnds}

InitAct ==
    /\ op = "init"
    /\ nlp_engine \in BOOLEAN
    /\ sentence \in PassiveSentences
    /\ bullet = ""
    /\ AsmIdle /\ AppIdle /\ ExpIdle /\ PolIdle /\ DlIdle /\ DetIdle
    /\ FormIdle /\ RenIdle /\ DbIdle

ConvertToActiveVoice ==
    /\ op = "init"
    /\ bullet' = _convert_to_active_voice(sentence)
    /\ op' = "_convert_to_active_voice"
    /\ UNCHANGED <<nlp_engine, sentence, asmVars, appVars, expVars, polVars, dlVars, detVars,
                   formVars, renVars, dbVars>>

NextAct == ConvertToActiveVoice \/ TransformToBullet

SpecAct == InitAct /\ [][NextAct]_vars

\* the words of a sentence without the auxiliaries (was, were, has been, have been, is,
\* are) that stand directly before a word ending in 'ed'
RECURSIVE DropAuxiliaries(_)
DropAuxiliaries(ws) ==
    IF ws = <<>> THEN <<>>
    ELSE IF /\ Len(ws) >= 3
            /\ Lower(ws[1]) \in {"has", "have"} /\ Lower(ws[2]) = "been"
            /\ EndsWith(Lower(ws[3]), "ed")
         THEN DropAuxiliaries(Tail(Tail(ws)))
    ELSE IF /\ Len(ws) >= 2
            /\ Lower(ws[1]) \in {"was", "were", "is", "are"}
            /\ EndsWith(Lower(ws[2]), "ed")
         THEN DropAuxiliaries(Tail(ws))
    ELSE <<ws[1]>> \o DropAuxiliaries(Tail(ws))

\* C30: _convert_to_active_voice deletes the auxiliary words that directly precede a word
\* ending in 'ed' and nothing else: every other word of the sentence comes back unchanged
C30_OnlyAuxiliaryDeleted ==
    op = "_convert_to_active_voice" => Words(bullet) = DropAuxiliaries(Words(sentence))

(***************************************************************************)
(* The Experience section for entries with short and long texts            *)
(***************************************************************************)
\* raw texts of 10 characters or fewer, of short sentences only, and longer ones
DutyTexts == {"", "Led team.", "Fixed bugs", "Hired. Fired.", "Led the backend team of five"}

DutyRecords ==
    {MakeRecord("jo li", NoContact,
                [NoBody EXCEPT !.experience_entries =
                    <<[NoExperience EXCEPT !.company = "Acme", !.responsibilities = r,
                                           !.achievements = a]>>], {}) :
        r \in DutyTexts, a \in DutyTexts}

InitDuty ==
    /\ op = "init"
    /\ data \in DutyRecords
    /\ style \in SUPPORTED_STYLES
    /\ enhancer \in BOOLEAN
    /\ nlp_engine \in {b \in BOOLEAN : b => enhancer}
    /\ outcome = Returned("")
    /\ EnhIdle /\ AppIdle /\ ExpIdle /\ PolIdle /\ DlIdle /\ DetIdle
    /\ FormIdle /\ RenIdle /\ DbIdle

SpecDuty == InitDuty /\ [][NextAsm]_vars

\* the lines of the document that are bullets
BulletLinesOf(lines) == SelectSeq(lines, LAMBDA line : StartsWith(Strip(line), Bullet))

\* C29: no non-blank text of an experience entry is dropped: the document shows at least
\* one bullet for every non-blank responsibilities text and every non-blank achievements
\* text, whatever the length of the text
C29_BulletForEveryText ==
    op \in {"generate_resume", "simple_generate_resume"} /\ ~outcome.raised =>
        \A k \in 1..Len(data.experience_entries) :
            Len(BulletLinesOf(OutcomeLines)) >=
                (IF Strip(data.experience_entries[k].responsibilities) # "" THEN 1 ELSE 0)
                + (IF Strip(data.experience_entries[k].achievements) # "" THEN 1 ELSE 0)

(***************************************************************************)
(* core/exporter.py and core/simple_exporter.py: the class each exporter    *)
(* gives a line of the resume text.  (The specification of the exporters    *)
(* above stands for the whole serialized document with one value; here the  *)
(* paragraphs are told apart.)                                              *)
(***************************************************************************)
\* whether s contains one of the terms
AnyIn(s, terms) == \E t \in terms : Contains(s, t)

\* exporter._is_section_header.section_headers
exporter_section_headers ==
    {"professional summary", "professional objective", "technical skills",
     "professional experience", "education", "projects", "skills", "experience", "summary",
     "objective", "certifications", "awards", "languages", "volunteer experience",
     "publications", "achievements"}

_is_section_header(line) ==
    \/ Lower(Strip(line)) \in exporter_section_headers
    \/ IsUpper(line) /\ Len(Words(line)) <= 4 /\ Len(line) > 3

_is_separator_line(line) ==
    /\ Len(line) > 2
    /\ CharSet(Strip(line)) \subseteq {"=", "-", "_"}
    /\ Cardinality(CharSet(Strip(line))) <= 2

\* exporter._classify_line(line, index, all_lines); index counts from 0
_classify_line(line, index) ==
    IF index <= 2 /\ IsUpper(line) /\ ~_is_section_header(line) THEN "name_header"
    ELSE IF /\ AnyIn(Lower(Strip(line)), {"email:", "phone:", "@", "|", Bullet})
            /\ ~StartsWith(line, Bullet)
    THEN "contact_info"
    ELSE IF _is_section_header(line) THEN "section_header"
    ELSE IF _is_separator_line(line) THEN "separator"
    ELSE IF StartsWith(line, "  " \o Bullet) \/ StartsWith(line, "    " \o Bullet)
    THEN "sub_bullet"
    ELSE IF StartsWith(line, Bullet) \/ StartsWith(line, "- ") THEN "bullet_point"
    ELSE "body_text"

\* the loop of exporter.export_to_docx and export_to_pdf: each line is stripped, an
\* empty one gives spacing, the others are classified
exporter_line_type(raw, index) ==
    IF Strip(raw) = "" THEN "blank" ELSE _classify_line(Strip(raw), index)

\* the branch the loop of simple_exporter.export_to_docx takes on a line; first is
\* lines[0] as it stands in the text
simple_docx_line_type(raw, i, first) ==
    IF Strip(raw) = "" THEN "blank"
    ELSE IF /\ IsUpper(Strip(raw)) /\ Len(Words(Strip(raw))) <= 8
            /\ ~StartsWith(Strip(raw), Bullet) /\ ~StartsWith(Strip(raw), "=")
    THEN IF Contains(Strip(raw), "=") \/ Contains(Strip(raw), "-") THEN "separator"
         ELSE IF i = 0 \/ (i = 1 /\ StartsWith(first, "=")) THEN "name_header"
         ELSE "section_header"
    ELSE IF \E marker \in {Bullet, "-", Arrow} : StartsWith(Strip(raw), marker)
    THEN "bullet_point"
    ELSE IF StartsWith(Strip(raw), "  " \o Bullet) \/ StartsWith(Strip(raw), "  -")
    THEN "sub_bullet"
    ELSE IF /\ Contains(Strip(raw), ":") /\ Len(Strip(raw)) < 100
            /\ AnyIn(Strip(raw), {"Email:", "Phone:", "LinkedIn:", "Location:"})
    THEN "contact_info"
    ELSE "body_text"

\* export_to_pdf.section_headers of simple_exporter
pdf_section_headers ==
    {"Professional Summary", "Summary", "Objective", "Skills", "Technical Skills",
     "Core Competencies", "Education", "Academic Background", "Experience",
     "Professional Experience", "Work Experience", "Projects", "Key Projects",
     "Notable Projects", "Certifications", "Certificates", "Awards", "Achievements",
     "Accomplishments"}

\* the last branch of the loop of simple_exporter.export_to_pdf: a subsection header
\* or regular text
SubsectionOrBody(line) ==
    IF /\ Len(line) < 100
       /\ \/ AnyIn(Lower(line), {"university", "college", "bachelor", "master", "intern",
                                 "engineer", "developer", "manager", "graduated"})
          \/ Len(Split(line, {","})) = 2
          \/ /\ Len(Words(line)) <= 10
             /\ ~StartsWith(line, Bullet) /\ ~StartsWith(line, "-") /\ ~Contains(line, ":")
    THEN "subsection" ELSE "body_text"

\* the branch the loop of simple_exporter.export_to_pdf takes on a line
simple_pdf_line_type(raw, i) ==
    IF Strip(raw) = "" THEN "blank"
    ELSE IF StartsWith(Strip(raw), "-") /\ Cardinality(CharSet(Strip(raw))) <= 2
    THEN "separator"
    ELSE IF /\ \E header \in pdf_section_headers : Contains(Lower(Strip(raw)), Lower(header))
            /\ Len(Strip(raw)) < 50
    THEN "section_header"
    ELSE IF i = 0 \/ (~AnyIn(Strip(raw), {"|", "@", "http"}) /\ Len(Words(Strip(raw))) <= 4)
    THEN IF i = 0 THEN "name_header" ELSE "subsection"
    ELSE IF /\ Contains(Strip(raw), "|")
            /\ AnyIn(Lower(Strip(raw)), {"email", "phone", "linkedin", "location", "@", "http"})
    THEN "contact_info"
    ELSE IF \E marker \in {Bullet, "-", Arrow} : StartsWith(Strip(raw), marker)
    THEN "bullet_point"
    ELSE IF StartsWith(Strip(raw), "  " \o Bullet) \/ StartsWith(Strip(raw), "  -")
    THEN "sub_bullet"
    ELSE SubsectionOrBody(Strip(raw))

\* the line types an export gives the lines of a text, line by line
LineTypes(renderer, resume_text) ==
    [k \in 1..Len(Lines(resume_text)) |->
        CASE renderer \in {"exporter.export_to_docx", "exporter.export_to_pdf"} ->
                 exporter_line_type(Lines(resume_text)[k], k - 1)
          [] renderer = "simple_exporter.export_to_docx" ->
                 simple_docx_line_type(Lines(resume_text)[k], k - 1, Lines(resume_text)[1])
          [] renderer = "simple_exporter.export_to_pdf" ->
                 simple_pdf_line_type(Lines(resume_text)[k], k - 1)]


Renderers ==
    {"exporter.export_to_docx", "exporter.export_to_pdf", "simple_exporter.export_to_docx",
     "simple_exporter.export_to_pdf"}

\* the header the assembler writes for a name, with and without contact data
RenderHeads ==
    {_build_header_section(MakeRecord(name, contact, NoBody, {})) :
        name \in {"jo li", "JO LI", "j l"},
        contact \in {NoContact, [NoContact EXCEPT !.email = "jo@x.io", !.phone = "555-0100"]}}

\* what follows the header: a section as the assembler writes it in the styles 'modern'
\* and 'simple', an education section, the experience section of the minimal fallback
RenderBodies ==
    { <<"", "Skills", Bullet \o " Python, React", Divider>>,
      <<"", "TECHNICAL SKILLS", Bullet \o " Python", Divider>>,
      <<"", "Education", "BS CS, MIT", Divider>>,
      <<"", "PROFESSIONAL EXPERIENCE", MinimalDivider, Bullet \o " Engineer at Acme",
        "  " \o Bullet \o " Led the backend team", "">> }

RenderTexts == {head \o "\n" \o Join(body, "\n") : head \in RenderHeads, body \in RenderBodies}

NotRendered == [r \in Renderers |-> <<>>]

InitRen ==
    /\ op = "init"
    /\ nlp_engine = TRUE
    /\ document \in RenderTexts
    /\ rendered = NotRendered
    /\ scan = <<>>
    /\ EnhIdle /\ AsmIdle /\ AppIdle /\ ExpIdle /\ PolIdle /\ DlIdle /\ DetIdle
    /\ FormIdle /\ DbIdle

\* one export of the text: the line types of its paragraphs
Render(renderer) ==
    /\ rendered[renderer] = <<>>
    /\ rendered' = [rendered EXCEPT ![renderer] = LineTypes(renderer, document)]
    /\ op' = renderer
    /\ UNCHANGED <<nlp_engine, document, scan, enhVars, asmVars, appVars, expVars, polVars,
                   dlVars, detVars, formVars, dbVars>>

RenderExporterDocx == Render("exporter.export_to_docx")
RenderExporterPdf == Render("exporter.export_to_pdf")
RenderSimpleDocx == Render("simple_exporter.export_to_docx")
RenderSimplePdf == Render("simple_exporter.export_to_pdf")

NextRen == RenderExporterDocx \/ RenderExporterPdf \/ RenderSimpleDocx \/ RenderSimplePdf

SpecRen == InitRen /\ [][NextRen]_vars

\* the class of the claim a line type stands for: a subsection header of the PDF path
\* counts as body text
LineClass(line_type) == IF line_type = "subsection" THEN "body_text" ELSE line_type

\* C23: the DOCX path and the PDF path of an exporter give every line of a resume text
\* the same line class
C23_SameClassInBothFormats ==
    \A pair \in {<<"simple_exporter.export_to_docx", "simple_exporter.export_to_pdf">>,
                 <<"exporter.export_to_docx", "exporter.export_to_pdf">>} :
        rendered[pair[1]] # <<>> /\ rendered[pair[2]] # <<>> =>
            \A k \in 1..Len(Lines(document)) :
                LineClass(rendered[pair[1]][k]) = LineClass(rendered[pair[2]][k])

\* a line of two or more spaces and a bullet marker
IsNestedBullet(line) == StartsWith(line, "  ") /\ StartsWith(Strip(line), Bullet)

\* C24: every exporter, in both formats, gives a line that begins with two or more
\* spaces and a bullet marker the line type of a sub-bullet, not that of a bullet
C24_NestedBulletIsSubBullet ==
    \A renderer \in Renderers :
        rendered[renderer] # <<>> =>
            \A k \in 1..Len(Lines(document)) :
                IsNestedBullet(Lines(document)[k]) => rendered[renderer][k] = "sub_bullet"

\* C26: the DOCX exporters give the first line of the document, the title-cased name, the
\* line type of the name header whenever it has a lowercase letter
C26_TitleCasedNameIsHeader ==
    \A renderer \in {"exporter.export_to_docx", "simple_exporter.export_to_docx"} :
        /\ rendered[renderer] # <<>>
        /\ \E i \in 1..Len(Lines(document)[1]) : Char(Lines(document)[1], i) \in LowerSet
        => rendered[renderer][1] = "name_header"


(***************************************************************************)
(* simple_exporter.export_to_pdf line by line: the loop that fills story    *)
(* and counts the lines of the current section                              *)
(***************************************************************************)
\* the number of lines of the text of a behaviour
MaxLines == 28
\* if current_section_lines > 25
SectionLimit == 25

\* the lines a text is made of
PdfLines ==
    {"Jo Li", "", MinimalDivider, "Skills", Bullet \o " Led the backend team of five",
     "Built apis for clients"}

\* the state before the loop; since and header_seen record what the text read so far
\* was: the lines since the last section header that are neither empty nor dashed, and
\* whether a section header was read; the fields _before are their values one line ago
NoScan ==
    [i |-> 0, line_type |-> "none", story |-> <<>>, current_section_lines |-> 0,
     is_first_section |-> TRUE, built |-> FALSE,
     since |-> 0, since_before |-> 0, header_seen |-> FALSE, header_seen_before |-> FALSE]

\* the elements story.append adds for a line, by the branch taken
StoryOf(line_type, page_break) ==
    CASE line_type = "blank" -> <<"Spacer">>
      [] line_type = "separator" -> <<>>
      [] line_type = "section_header" ->
             (IF page_break THEN <<"PageBreak">> ELSE <<>>) \o <<"Paragraph", "Table">>
      [] OTHER -> <<"Paragraph">>

\* the test before the header of a section is added, with the limit one lower
PageBreakDueFrom25(current_section_lines, is_first_section) ==
    current_section_lines > SectionLimit - 1 /\ ~is_first_section

\* if current_section_lines > 25 and not is_first_section
PageBreakDue(current_section_lines, is_first_section) ==
    current_section_lines > SectionLimit /\ ~is_first_section

\* current_section_lines after a line of the type
CountAfter(line_type, current_section_lines) ==
    CASE line_type \in {"blank", "separator"} -> current_section_lines
      [] line_type \in {"section_header", "name_header"} -> 0
      [] OTHER -> current_section_lines + 1

\* one pass of the loop, on a line of the type
PdfStep(st, line_type) ==
    [i |-> st.i + 1,
     line_type |-> line_type,
     story |-> StoryOf(line_type, PageBreakDue(st.current_section_lines, st.is_first_section)),
     current_section_lines |-> CountAfter(line_type, st.current_section_lines),
     is_first_section |-> st.is_first_section /\ line_type # "section_header",
     built |-> FALSE,
     since |-> IF line_type = "section_header" THEN 0
               ELSE IF line_type \in {"blank", "separator"} THEN st.since ELSE st.since + 1,
     since_before |-> st.since,
     header_seen |-> st.header_seen \/ line_type = "section_header",
     header_seen_before |-> st.header_seen]

InitPdf ==
    /\ op = "init"
    /\ nlp_engine = TRUE
    /\ document = ""
    /\ rendered = <<>>
    /\ scan = NoScan
    /\ EnhIdle /\ AsmIdle /\ AppIdle /\ ExpIdle /\ PolIdle /\ DlIdle /\ DetIdle
    /\ FormIdle /\ DbIdle

\* for i, line in enumerate(lines): one line of the text
PdfLine ==
    /\ ~scan.built
    /\ scan.i < MaxLines
    /\ \E raw \in PdfLines : scan' = PdfStep(scan, simple_pdf_line_type(raw, scan.i))
    /\ op' = "line"
    /\ UNCHANGED <<nlp_engine, document, rendered, enhVars, asmVars, appVars, expVars, polVars,
                   dlVars, detVars, formVars, dbVars>>

\* doc.build(story) after the last line
PdfBuild ==
    /\ ~scan.built
    /\ scan.i >= 1
    /\ scan' = [scan EXCEPT !.built = TRUE]
    /\ op' = "build"
    /\ UNCHANGED <<nlp_engine, document, rendered, enhVars, asmVars, appVars, expVars, polVars,
                   dlVars, detVars, formVars, dbVars>>

NextPdf == PdfLine \/ PdfBuild

SpecPdf == InitPdf /\ [][NextPdf]_vars

\* C25: the PDF path emits a page break exactly at a section header that has a section
\* header before it and more than 25 counted lines since that one; the counter is 0 after
\* every section header and after the name line, and counts the lines since the last
\* section header that are neither empty nor dashed
C25_PageBreakAtLongSection ==
    op = "line" =>
        /\ "PageBreak" \in Range(scan.story)
           <=> /\ scan.line_type = "section_header"
               /\ scan.header_seen_before
               /\ scan.since_before > 25
        /\ scan.line_type \in {"section_header", "name_header"} =>
               scan.current_section_lines = 0
        /\ scan.header_seen => scan.current_section_lines = scan.since

\* a section header was read after a section of more than 25 counted lines, and the page
\* break was emitted before it
C25_Witness ==
    /\ op = "line"
    /\ scan.line_type = "section_header"
    /\ scan.header_seen_before /\ scan.since_before > 25
    /\ scan.story = <<"PageBreak", "Paragraph", "Table">>


(***************************************************************************)
(* dashboard.py: the saved resumes of the signed-in user.  resumes is the   *)
(* table in insertion order, a row's position standing for its id; a        *)
(* handler that queries the table before it writes takes two steps, the     *)
(* query and the commit, and requests of one user can overlap.              *)
(***************************************************************************)
\* the number of rows the table holds at most
MaxRows == 2

\* the requests that can be in flight at once
DashRequests == {1, 2}

\* current_user.id
CurrentUser == "u1"

\* the forms and styles of POST /generate, the texts of POST /update_resume
DashForms == {MakeRecord("jo li", FullContact, NoBody, {})}
DashTexts == {"", " ", "Jo Li\nedited by hand"}

\* the titles of the JSON requests: save_resume, rename_resume
SaveTitles == {"cv", " cv ", "b", ""}
RenameTitles == {"cv", "b", " "}
\* the ids a request can name: those of the rows and one that no row has
ResumeIds == 1..(MaxRows + 1)

NoRequest == [pc |-> "idle", kind |-> "none", resume_id |-> 0, title |-> "", content |-> "",
              style |-> "", form_data |-> EmptyData]

\* Resume.query.filter_by(user_id=current_user.id, title=title), the ids of the rows
TitleRows(rows, title) ==
    {k \in 1..Len(rows) : rows[k].user_id = CurrentUser /\ rows[k].title = title}

\* Resume.query.filter_by(id=resume_id, user_id=current_user.id).first() is not None
Found(rows, resume_id) == resume_id \in 1..Len(rows) /\ rows[resume_id].user_id = CurrentUser

\* the title duplicate_resume settles on: "(Copy)", then "(Copy 2)", "(Copy 3)", ...
RECURSIVE DuplicateTitle(_, _, _)
DuplicateTitle(rows, title, counter) ==
    IF TitleRows(rows, IF counter = 1 THEN title \o " (Copy)"
                       ELSE title \o " (Copy " \o ToString(counter) \o ")") = {}
    THEN (IF counter = 1 THEN title \o " (Copy)"
          ELSE title \o " (Copy " \o ToString(counter) \o ")")
    ELSE DuplicateTitle(rows, title, counter + 1)

InitDash ==
    /\ op = "init"
    /\ nlp_engine = TRUE
    /\ session = NoSession
    /\ used_style = ""
    /\ response = "none"
    /\ resumes = <<>>
    /\ request = [r \in DashRequests |-> NoRequest]
    /\ EnhIdle /\ AsmIdle /\ ExpIdle /\ PolIdle /\ DlIdle /\ DetIdle
    /\ FormIdle /\ RenIdle

\* what a dashboard request leaves alone
DashFrame ==
    UNCHANGED <<nlp_engine, used_style, enhVars, asmVars, expVars, polVars, dlVars, detVars,
                formVars, renVars>>

\* a request answered without a write
Answered(name, result) ==
    /\ op' = name
    /\ response' = result
    /\ UNCHANGED <<session, resumes, request>>
    /\ DashFrame

\* a request that has made its queries and goes on to write
Queried(r, name, pending) ==
    /\ op' = name
    /\ request' = [request EXCEPT ![r] = pending]
    /\ UNCHANGED <<session, resumes, response>>
    /\ DashFrame

\* db.session.commit() of a request: the table after it, and the answer
Committed(r, name, rows, result) ==
    /\ op' = name
    /\ resumes' = rows
    /\ request' = [request EXCEPT ![r] = NoRequest]
    /\ response' = result
    /\ UNCHANGED session
    /\ DashFrame

\* POST /save_resume up to the query for an existing title
SaveCheck(r) ==
    /\ request[r].pc = "idle"
    /\ \E title \in SaveTitles :
           IF ~session.present \/ Strip(title) = "" \/ TitleRows(resumes, Strip(title)) # {}
           THEN Answered("save_resume", "failure")
           ELSE Queried(r, "save_resume",
                        [pc |-> "queried", kind |-> "save", resume_id |-> 0,
                         title |-> Strip(title), content |-> session.resume_text,
                         style |-> session.style, form_data |-> session.form_data])

\* the row a request inserts
NewRow(pending) ==
    [user_id |-> CurrentUser, title |-> pending.title, content |-> pending.content,
     style |-> pending.style, form_data |-> pending.form_data]

\* POST /save_resume: db.session.add(resume), db.session.commit()
SaveCommit(r) ==
    /\ request[r].pc = "queried" /\ request[r].kind = "save"
    /\ Len(resumes) < MaxRows
    /\ Committed(r, "save_resume", Append(resumes, NewRow(request[r])), "success")

\* POST /rename_resume/<id> up to the query for an existing title
RenameCheck(r) ==
    /\ request[r].pc = "idle"
    /\ \E resume_id \in ResumeIds, title \in RenameTitles :
           IF \/ ~Found(resumes, resume_id)
              \/ Strip(title) = ""
              \/ TitleRows(resumes, Strip(title)) \ {resume_id} # {}
           THEN Answered("rename_resume", "failure")
           ELSE Queried(r, "rename_resume",
                        [NoRequest EXCEPT !.pc = "queried", !.kind = "rename",
                                          !.resume_id = resume_id, !.title = Strip(title)])

\* POST /rename_resume/<id>: resume.title = new_title, db.session.commit()
RenameCommit(r) ==
    /\ request[r].pc = "queried" /\ request[r].kind = "rename"
    /\ Committed(r, "rename_resume",
                 [resumes EXCEPT ![request[r].resume_id].title = request[r].title], "success")

\* GET /duplicate_resume/<id> up to the queries for a free title
DuplicateCheck(r) ==
    /\ request[r].pc = "idle"
    /\ \E resume_id \in ResumeIds :
           IF ~Found(resumes, resume_id)
           THEN Answered("duplicate_resume", "redirect")
           ELSE Queried(r, "duplicate_resume",
                        [pc |-> "queried", kind |-> "duplicate", resume_id |-> resume_id,
                         title |-> DuplicateTitle(resumes, resumes[resume_id].title, 1),
                         content |-> resumes[resume_id].content,
                         style |-> resumes[resume_id].style,
                         form_data |-> resumes[resume_id].form_data])

\* GET /duplicate_resume/<id>: db.session.add(duplicate), db.session.commit()
DuplicateCommit(r) ==
    /\ request[r].pc = "queried" /\ request[r].kind = "duplicate"
    /\ Len(resumes) < MaxRows
    /\ Committed(r, "duplicate_resume", Append(resumes, NewRow(request[r])), "redirect")

\* GET /load_resume/<id>
LoadResume ==
    \E resume_id \in ResumeIds :
        IF ~Found(resumes, resume_id) THEN Answered("load_resume", "redirect")
        ELSE /\ op' = "load_resume"
             /\ session' = [present |-> TRUE, resume_text |-> resumes[resume_id].content,
                            style |-> resumes[resume_id].style,
                            form_data |-> resumes[resume_id].form_data]
             /\ response' = "redirect"
             /\ UNCHANGED <<resumes, request>>
             /\ DashFrame

\* POST /update_resume/<id> of the dashboard
DashboardUpdateResume ==
    \E resume_id \in ResumeIds :
        IF ~Found(resumes, resume_id) \/ ~session.present
        THEN Answered("dashboard.update_resume", "failure")
        ELSE /\ op' = "dashboard.update_resume"
             /\ resumes' = [resumes EXCEPT ![resume_id].content = session.resume_text,
                                           ![resume_id].style = session.style,
                                           ![resume_id].form_data = session.form_data]
             /\ response' = "success"
             /\ UNCHANGED <<session, request>>
             /\ DashFrame

SessionGenerate == \E form \in DashForms, raw \in {"modern"} : GenerateRequest(form, raw)
SessionUpdateResume == \E resume_text \in DashTexts, raw \in {"simple"} : UpdateRequest(resume_text, raw)
SaveResumeCheck == \E r \in DashRequests : SaveCheck(r)
SaveResumeCommit == \E r \in DashRequests : SaveCommit(r)
RenameResumeCheck == \E r \in DashRequests : RenameCheck(r)
RenameResumeCommit == \E r \in DashRequests : RenameCommit(r)
DuplicateResumeCheck == \E r \in DashRequests : DuplicateCheck(r)
DuplicateResumeCommit == \E r \in DashRequests : DuplicateCommit(r)

\* the session and the table under the requests that store a resume text
NextSave ==
    \/ SessionGenerate \/ SessionUpdateResume \/ AppRegenerate
    \/ SaveResumeCheck \/ SaveResumeCommit \/ LoadResume \/ DashboardUpdateResume

SpecSave == InitDash /\ [][NextSave]_vars

\* the table under the requests that set a title
NextTitle ==
    \/ SessionGenerate
    \/ SaveResumeCheck \/ SaveResumeCommit
    \/ RenameResumeCheck \/ RenameResumeCommit
    \/ DuplicateResumeCheck \/ DuplicateResumeCommit

SpecTitle == InitDash /\ [][NextTitle]_vars

\* C28: no user has two saved resumes with the same title, whatever the interleaving of
\* the save_resume, rename_resume and duplicate_resume requests
C28_TitlesUniquePerUser ==
    \A i, j \in 1..Len(resumes) :
        resumes[i].user_id = resumes[j].user_id /\ resumes[i].title = resumes[j].title => i = j


\* the last request was one that stores a resume text and was turned down
Rejected ==
    /\ op \in {"generate", "update_resume", "regenerate_resume"}
    /\ response \in {"index", "failure"}

\* C27: whenever the session holds resume data its resume_text is not blank, the content
\* of every saved resume is not blank, and a generate, update_resume or regenerate_resume
\* request that is turned down leaves the session as it was
C27_StoredTextNeverBlank ==
    /\ [](/\ session.present => Strip(session.resume_text) # ""
          /\ \A k \in 1..Len(resumes) : Strip(resumes[k].content) # "")
    /\ [][Rejected' => session' = session]_vars

\* a resume is saved, the session holds resume data, and an update_resume request with a
\* blank text was just turned down
C27_Witness ==
    /\ op = "update_resume" /\ response = "failure"
    /\ session.present
    /\ Len(resumes) > 0

====
